---- MODULE Spec2Model ----
(***************************************************************************)
(* Notification engine of the compliance-record tracker.                   *)
(*                                                                         *)
(* The model follows notifications/services.py and notifications/models.py.*)
(* The NotificationLog table is a set of rows with a unique constraint on  *)
(* (record, rule, kind, trigger_date).  The primary key of a row is kept   *)
(* as far as it tells rows apart: id numbers the rows of one key.  A sweep *)
(* (run_notifications_for_org) is a process that walks rules x records;    *)
(* its database statements and mail sends are the atomic steps, so that    *)
(* two sweeps interleave and a sweep can be killed between any two steps.  *)
(*                                                                         *)
(* Texts (emails, templates, error messages) are sequences of chunks; an   *)
(* email is a sequence of one-character chunks.  Dates are day numbers.    *)
(***************************************************************************)
EXTENDS Integers, Sequences, FiniteSets, TLC

\* ------------------------------------------------------------------------
\* Bounds
\* ------------------------------------------------------------------------
MaxDate == 2                      \* run dates are 1..MaxDate
MaxRuns == 2                      \* sweeps started in one behaviour

RunDates == 1..MaxDate
Sweeps == {"cron", "manual"}      \* overlapping scheduled and manual runs

\* ------------------------------------------------------------------------
\* Program constants and choices
\* ------------------------------------------------------------------------
MaxEmailLen == 254
MaxErrorLen == 5000

REMINDER == "reminder"
ESCALATION == "escalation"
NotificationKind == {REMINDER, ESCALATION}

PENDING == "pending"
SENT == "sent"
FAILED == "failed"
SKIPPED == "skipped"
NotificationStatus == {PENDING, SENT, FAILED, SKIPPED}

RecordStatus == {"active", "expiring_soon", "expired", "renewed", "archived"}
UserRole == {"admin", "manager", "viewer"}

\* Python's None where a text is expected (a chunk no text contains).
None == <<"<None>">>

\* ------------------------------------------------------------------------
\* The catalog the engine reads: organizations, users, records, rules.
\* Ids follow the default ordering of each table (Meta.ordering), the order
\* in which a queryset yields its rows.
\* ------------------------------------------------------------------------
Orgs == {1, 2}

Users == <<
  [organization |-> 1, role |-> "admin",   is_active |-> TRUE,  email |-> <<"m", "@", "x">>],
  [organization |-> 1, role |-> "viewer",  is_active |-> TRUE,  email |-> <<" ", "o", "@", "x">>],
  [organization |-> 1, role |-> "manager", is_active |-> TRUE,  email |-> <<"b", "a", "d">>],
  [organization |-> 2, role |-> "manager", is_active |-> FALSE, email |-> <<"n", "@", "y">>],
  [organization |-> 2, role |-> "viewer",  is_active |-> TRUE,  email |-> <<"p", "@", "y">>]
>>
UserIds == DOMAIN Users

\* owner = 0 is a record without owner.  status is the status at Init.
Records == <<
  [organization |-> 1, title |-> <<"ISO">>, reference_no |-> <<"R-1">>, expiry_date |-> 3,
   status |-> "active", owner |-> 2, record_type |-> "license", category |-> "hse"],
  [organization |-> 1, title |-> <<"Permit">>, reference_no |-> <<>>, expiry_date |-> 3,
   status |-> "renewed", owner |-> 0, record_type |-> "permit", category |-> "hse"],
  [organization |-> 1, title |-> <<"Safety">>, reference_no |-> <<>>, expiry_date |-> 3,
   status |-> "archived", owner |-> 2, record_type |-> "certificate", category |-> "hse"],
  [organization |-> 2, title |-> <<"Lic">>, reference_no |-> <<"R-4">>, expiry_date |-> 1,
   status |-> "expiring_soon", owner |-> 0, record_type |-> "license", category |-> "vendor"]
>>
RecordIds == DOMAIN Records

\* record_type / category "" is an unset (blank or null) dimension.
\* escalation_recipients are user ids in the order the prefetch yields them.
Rules == <<
  [organization |-> 1, enabled |-> TRUE, applies_to_all |-> TRUE,
   record_type |-> "", category |-> "",
   offsets_days |-> <<2, 1>>, escalate_enabled |-> TRUE, escalate_offsets_days |-> <<1>>,
   escalation_recipients |-> <<3>>, email_subject_template |-> <<>>],
  [organization |-> 1, enabled |-> TRUE, applies_to_all |-> FALSE,
   record_type |-> "permit", category |-> "",
   offsets_days |-> <<1>>, escalate_enabled |-> FALSE, escalate_offsets_days |-> <<1>>,
   escalation_recipients |-> <<>>, email_subject_template |-> <<"{kind}", ": ", "{title}", "{x}">>],
  [organization |-> 1, enabled |-> FALSE, applies_to_all |-> TRUE,
   record_type |-> "", category |-> "",
   offsets_days |-> <<2, 1>>, escalate_enabled |-> TRUE, escalate_offsets_days |-> <<2, 1>>,
   escalation_recipients |-> <<>>, email_subject_template |-> <<>>],
  [organization |-> 2, enabled |-> TRUE, applies_to_all |-> TRUE,
   record_type |-> "", category |-> "",
   offsets_days |-> <<0>>, escalate_enabled |-> TRUE, escalate_offsets_days |-> <<0>>,
   escalation_recipients |-> <<>>, email_subject_template |-> <<>>],
  [organization |-> 2, enabled |-> TRUE, applies_to_all |-> TRUE,
   record_type |-> "", category |-> "",
   offsets_days |-> <<>>, escalate_enabled |-> TRUE, escalate_offsets_days |-> <<0>>,
   escalation_recipients |-> <<4, 5>>, email_subject_template |-> <<>>]
>>
RuleIds == DOMAIN Rules

\* What a failing msg.send raises (str(e)).
SendErrors == { <<"SMTP", " ", "refused">> }

Range(s) == {s[i] : i \in DOMAIN s}

\* The unique-constraint fields of a log row.
KeyOf(row) == <<row.record, row.rule, row.kind, row.trigger_date>>
AllKeys == RecordIds \X RuleIds \X NotificationKind \X RunDates


\* ------------------------------------------------------------------------
\* services.py helpers
\* ------------------------------------------------------------------------
RECURSIVE LStrip(_)
LStrip(s) == IF s # <<>> /\ Head(s) = " " THEN LStrip(Tail(s)) ELSE s

RECURSIVE RStrip(_)
RStrip(s) == IF s # <<>> /\ s[Len(s)] = " " THEN RStrip(SubSeq(s, 1, Len(s) - 1)) ELSE s

Strip(s) == RStrip(LStrip(s))

\* First loop of _safe_emails: drop falsy entries, trim, keep the valid ones.
RECURSIVE ValidEmails(_)
ValidEmails(emails) ==
  IF emails = <<>> THEN <<>>
  ELSE LET e == Head(emails)
           rest == ValidEmails(Tail(emails))
       IN IF e = None \/ e = <<>> THEN rest
          ELSE LET t == Strip(e)
               IN IF "@" \in Range(t) /\ Len(t) <= MaxEmailLen THEN <<t>> \o rest ELSE rest

\* Second loop left out: every valid entry kept.
KeepAll(out, seen) == out

\* Second loop of _safe_emails: unique, first-seen order preserved.
RECURSIVE Uniq(_, _)
Uniq(out, seen) ==
  IF out = <<>> THEN <<>>
  ELSE IF Head(out) \in seen THEN Uniq(Tail(out), seen)
       ELSE <<Head(out)>> \o Uniq(Tail(out), seen \cup {Head(out)})

safe_emails(emails) == Uniq(ValidEmails(emails), {})

\* str.replace on chunked text: every chunk equal to tok becomes val.
RECURSIVE Replace(_, _, _)
Replace(s, tok, val) ==
  IF s = <<>> THEN <<>>
  ELSE (IF Head(s) = tok THEN val ELSE <<Head(s)>>) \o Replace(Tail(s), tok, val)

DefaultSubject ==
  <<"[EMSTEEL | Certificates & Licenses] ", "{kind}", " * ", "{title}", " (", "{ref}", ") * ",
    "{days}", " day(s) left">>

render_subject(rule, record, kind, days_left) ==
  LET template == IF rule.email_subject_template # <<>> THEN rule.email_subject_template
                  ELSE DefaultSubject
      r1 == Replace(template, "{kind}", <<kind>>)
      r2 == Replace(r1, "{title}", record.title)
      r3 == Replace(r2, "{ref}", IF record.reference_no # <<>> THEN record.reference_no ELSE <<"N/A">>)
      r4 == Replace(r3, "{days}", <<ToString(days_left)>>)
  IN Strip(r4)

\* Emails of a sequence of user ids, in order.
EmailsOf(uids) == [i \in DOMAIN uids |-> Users[uids[i]].email]

\* Ids (ascending) of the elements of a finite set of naturals.
RECURSIVE SortedSeq(_)
SortedSeq(S) ==
  IF S = {} THEN <<>>
  ELSE LET m == CHOOSE x \in S : \A y \in S : x <= y
       IN <<m>> \o SortedSeq(S \ {m})

\* Variant: the is_active filter is missing.
get_org_managers_emails_any(org_id) ==
  LET qs == {u \in UserIds : /\ Users[u].organization = org_id
                             /\ Users[u].role \in {"admin", "manager"}
                             /\ Users[u].email # <<>>}
  IN safe_emails(EmailsOf(SortedSeq(qs)))

\* The user table does not change: the query is answered once per tenant.
OrgManagersEmails ==
  [org_id \in Orgs |->
     LET qs == {u \in UserIds : /\ Users[u].organization = org_id
                                /\ Users[u].role \in {"admin", "manager"}
                                /\ Users[u].is_active
                                /\ Users[u].email # <<>>}
     IN safe_emails(EmailsOf(SortedSeq(qs)))]

get_org_managers_emails(org_id) == OrgManagersEmails[org_id]

\* ------------------------------------------------------------------------
\* models.py: NotificationRule.matches_record, NotificationLog
\* ------------------------------------------------------------------------
\* Variant: with both dimensions set, one equal dimension is enough.
matches_record_either(rule, record) ==
  IF record.organization # rule.organization THEN FALSE
  ELSE IF rule.applies_to_all THEN TRUE
  ELSE IF rule.record_type # "" /\ rule.category # ""
       THEN record.record_type = rule.record_type \/ record.category = rule.category
  ELSE IF rule.record_type # "" /\ record.record_type # rule.record_type THEN FALSE
  ELSE IF rule.category # "" /\ record.category # rule.category THEN FALSE
  ELSE TRUE

matches_record(rule, record) ==
  IF record.organization # rule.organization THEN FALSE
  ELSE IF rule.applies_to_all THEN TRUE
  ELSE IF rule.record_type # "" /\ record.record_type # rule.record_type THEN FALSE
  ELSE IF rule.category # "" /\ record.category # rule.category THEN FALSE
  ELSE TRUE

\* An in-memory NotificationLog that is no log (log = None in the sweep).
NoLog ==
  [id |-> 0, organization |-> 0, record |-> 0, rule |-> 0, kind |-> REMINDER, trigger_date |-> 0,
   status |-> PENDING, sent_at |-> "null", error_message |-> <<>>, recipients |-> <<>>,
   payload_summary |-> <<>>]

\* Variant: the recipients snapshot is not taken.
mark_sent_no_snapshot(log, recipients, payload_summary) ==
  [log EXCEPT !.status = SENT, !.sent_at = "now",
              !.payload_summary = IF payload_summary # <<>> THEN payload_summary ELSE @]

mark_sent(log, recipients, payload_summary) ==
  [log EXCEPT !.status = SENT, !.sent_at = "now", !.recipients = recipients,
              !.payload_summary = IF payload_summary # <<>> THEN payload_summary ELSE @]

\* Variant: the error text is stored whole.
mark_failed_whole(log, error) ==
  [log EXCEPT !.status = FAILED, !.error_message = error]

mark_failed(log, error) ==
  [log EXCEPT !.status = FAILED,
              !.error_message = SubSeq(error, 1, IF Len(error) < MaxErrorLen THEN Len(error) ELSE MaxErrorLen)]

\* Variant: the table has no unique constraint.
UniqueViolationNone(L, row) == FALSE

\* Variant: the constraint lets a key whose log failed be claimed again.
UniqueViolationRetryFailed(L, row) ==
  \E r \in L : KeyOf(r) = KeyOf(row) /\ r.status # FAILED

\* Variant: the constraint lets a key whose log is still pending be claimed again.
UniqueViolationReclaimPending(L, row) ==
  \E r \in L : KeyOf(r) = KeyOf(row) /\ r.status # PENDING

\* Variant: the constraint leaves the rule out of the key.
UniqueViolationPerRecord(L, row) ==
  \E r \in L : /\ r.record = row.record /\ r.kind = row.kind
               /\ r.trigger_date = row.trigger_date

\* The table's UniqueConstraint: an insert of row raises IntegrityError.
UniqueViolation(L, row) == \E r \in L : KeyOf(r) = KeyOf(row)

\* Variant: the UPDATE is keyed on the record instead of the row id.
SaveLogOfRecord(L, log, fields) ==
  { IF r.record = log.record
    THEN [f \in DOMAIN r |-> IF f \in fields THEN log[f] ELSE r[f]]
    ELSE r : r \in L }

\* log.save(update_fields=fields): UPDATE of those columns WHERE id = log.id.
SaveLog(L, log, fields) ==
  { IF r.id = log.id /\ KeyOf(r) = KeyOf(log)
    THEN [f \in DOMAIN r |-> IF f \in fields THEN log[f] ELSE r[f]]
    ELSE r : r \in L }

\* Variant: the row is filed under the first organization, not the record's.
create_log_or_skip_first_org(L, record_id, rule_id, kind, trigger_date) ==
  LET key == <<record_id, rule_id, kind, trigger_date>>
      row == [NoLog EXCEPT !.id = Cardinality({r \in L : KeyOf(r) = key}) + 1,
                           !.organization = CHOOSE o \in Orgs : \A o2 \in Orgs : o <= o2,
                           !.record = record_id, !.rule = rule_id, !.kind = kind,
                           !.trigger_date = trigger_date, !.status = PENDING]
  IN IF UniqueViolation(L, row)
     THEN [log |-> NoLog, ok |-> FALSE, table |-> L]
     ELSE [log |-> row, ok |-> TRUE, table |-> L \cup {row}]

\* Variant: an existing row is handed back as if it had just been created.
create_log_or_skip_existing(L, record_id, rule_id, kind, trigger_date) ==
  LET key == <<record_id, rule_id, kind, trigger_date>>
      row == [NoLog EXCEPT !.id = Cardinality({r \in L : KeyOf(r) = key}) + 1,
                           !.organization = Records[record_id].organization,
                           !.record = record_id, !.rule = rule_id, !.kind = kind,
                           !.trigger_date = trigger_date, !.status = PENDING]
  IN IF UniqueViolation(L, row)
     THEN [log |-> CHOOSE r \in L : KeyOf(r) = key, ok |-> TRUE, table |-> L]
     ELSE [log |-> row, ok |-> TRUE, table |-> L \cup {row}]

\* _create_log_or_skip: (log, True) and the table after the insert, or
\* (None, False) when the insert hits the unique constraint.
create_log_or_skip(L, record_id, rule_id, kind, trigger_date) ==
  LET key == <<record_id, rule_id, kind, trigger_date>>
      row == [NoLog EXCEPT !.id = Cardinality({r \in L : KeyOf(r) = key}) + 1,
                           !.organization = Records[record_id].organization,
                           !.record = record_id, !.rule = rule_id, !.kind = kind,
                           !.trigger_date = trigger_date, !.status = PENDING]
  IN IF UniqueViolation(L, row)
     THEN [log |-> NoLog, ok |-> FALSE, table |-> L]
     ELSE [log |-> row, ok |-> TRUE, table |-> L \cup {row}]

\* History counters: a function from the keys counted so far to their count.
Count(f, k) == IF k \in DOMAIN f THEN f[k] ELSE 0
Inc(f, k) == IF k \in DOMAIN f THEN [f EXCEPT ![k] = @ + 1] ELSE f @@ (k :> 1)

\* ------------------------------------------------------------------------
\* State
\* ------------------------------------------------------------------------
VARIABLES
  ledger,      \* the NotificationLog table: a set of rows
  recStatus,   \* Record.status as stored, by record id
  sw,          \* per sweep: the locals of run_notifications_for_org
  sendCalls,   \* history: number of _send_email calls per key
  tickets,     \* history: number of (log, True) results per key
  completed,   \* history: <<org, date>> of the runs that returned
  runs,        \* history: number of sweeps started
  call         \* a call of a model method or form outside the sweep: arguments, result

engine == <<ledger, recStatus, sw, sendCalls, tickets, completed, runs>>
vars == <<ledger, recStatus, sw, sendCalls, tickets, completed, runs, call>>

IdleSweep ==
  [pc |-> "idle", org_id |-> 0, run_date |-> 0,
   rules |-> <<>>, records |-> <<>>, ri |-> 1, ci |-> 1, kind |-> REMINDER,
   created |-> 0, sent |-> 0, failed |-> 0, skipped |-> 0,
   log |-> NoLog, to_emails |-> <<>>, subject |-> <<>>, err |-> <<>>,
   won |-> {}, lost |-> {}, rerun |-> FALSE]

\* No call is in progress.
NoCall == [fn |-> "none"]

EngineInit ==
  /\ ledger = {}
  /\ recStatus = [r \in RecordIds |-> Records[r].status]
  /\ sw = [p \in Sweeps |-> IdleSweep]
  /\ sendCalls = <<>>
  /\ tickets = <<>>
  /\ completed = {}
  /\ runs = 0

Init == EngineInit /\ call = NoCall

\* ------------------------------------------------------------------------
\* run_notifications_for_org, step by step
\* ------------------------------------------------------------------------
\* The two querysets, fetched once: enabled rules of the org; non-archived
\* records of the org with the status they had when fetched.
\* Variant: the enabled filter is missing.
EnabledRulesAll(org_id) ==
  SortedSeq({k \in RuleIds : Rules[k].organization = org_id})

EnabledRules(org_id) ==
  SortedSeq({k \in RuleIds : Rules[k].organization = org_id /\ Rules[k].enabled})

\* Variant: the queryset of records keeps the archived ones.
FetchRecordsArchivedToo(org_id) ==
  LET ids == SortedSeq({r \in RecordIds : Records[r].organization = org_id})
  IN [i \in DOMAIN ids |-> [id |-> ids[i], status |-> recStatus[ids[i]]]]

\* Variant: the queryset of records leaves out the renewed ones as well.
FetchRecordsNotRenewed(org_id) ==
  LET ids == SortedSeq({r \in RecordIds : Records[r].organization = org_id
                                           /\ recStatus[r] \notin {"archived", "renewed"}})
  IN [i \in DOMAIN ids |-> [id |-> ids[i], status |-> recStatus[ids[i]]]]

FetchRecords(org_id) ==
  LET ids == SortedSeq({r \in RecordIds : Records[r].organization = org_id
                                           /\ recStatus[r] # "archived"})
  IN [i \in DOMAIN ids |-> [id |-> ids[i], status |-> recStatus[ids[i]]]]

Running(p) == sw[p].pc \in {"eval", "claimed", "sent", "raised"}

\* The loop position: rule ri, record ci, and which of the two blocks of the
\* loop body (reminder, then escalation) comes next.
AtPair(p) ==
  /\ sw[p].pc = "eval"
  /\ sw[p].ri <= Len(sw[p].rules)
  /\ sw[p].records # <<>>

CurRuleId(s) == s.rules[s.ri]
CurRule(s) == Rules[CurRuleId(s)]
\* The record as fetched: catalog fields with the status of the snapshot.
CurRecord(s) ==
  [Records[s.records[s.ci].id] EXCEPT !.status = s.records[s.ci].status]
CurRecordId(s) == s.records[s.ci].id
DaysLeft(s) == CurRecord(s).expiry_date - s.run_date
CurKey(s) == <<CurRecordId(s), CurRuleId(s), s.kind, s.run_date>>

ClearAttempt(s) ==
  [s EXCEPT !.pc = "eval", !.log = NoLog, !.to_emails = <<>>, !.subject = <<>>, !.err = <<>>]

NextPair(s) ==
  IF s.ci < Len(s.records)
  THEN [ClearAttempt(s) EXCEPT !.ci = @ + 1, !.kind = REMINDER]
  ELSE [ClearAttempt(s) EXCEPT !.ri = @ + 1, !.ci = 1, !.kind = REMINDER]

NoDate == 0

\* Variant: a reminder is due on every day from the largest offset on.
ReminderDueWithin(rule, days_left) == \E o \in Range(rule.offsets_days) : days_left <= o

ReminderDue(rule, days_left) == days_left \in Range(rule.offsets_days)

\* Variant: an overdue record is escalated on every later day as well.
EscalationDueOverdue(rule, days_left) ==
  rule.escalate_enabled /\ (days_left \in Range(rule.escalate_offsets_days) \/ days_left < 0)

EscalationDue(rule, days_left) ==
  rule.escalate_enabled /\ days_left \in Range(rule.escalate_offsets_days)

\* Variant: only archived records are kept from escalation.
SuppressedArchivedOnly(record) == record.status \in {"archived"}

Suppressed(record) == record.status \in {"renewed", "archived"}

\* The loop runs on, without touching the database, up to the next block whose
\* condition holds (a claim comes next) or to the end of both loops: a record
\* without expiry date or not matching the rule is skipped, a reminder that is
\* not due falls through to the escalation block, an escalation that is not
\* due or is suppressed for a renewed/archived record goes to the next record.
RECURSIVE Seek(_)
Seek(s) ==
  IF s.ri > Len(s.rules) \/ s.records = <<>> THEN s
  ELSE IF s.kind = REMINDER
  THEN IF CurRecord(s).expiry_date = NoDate \/ ~matches_record(CurRule(s), CurRecord(s))
       THEN Seek(NextPair(s))
       ELSE IF ReminderDue(CurRule(s), DaysLeft(s)) THEN s
       ELSE Seek([s EXCEPT !.kind = ESCALATION])
  ELSE IF EscalationDue(CurRule(s), DaysLeft(s)) /\ ~Suppressed(CurRecord(s)) THEN s
       ELSE Seek(NextPair(s))

\* Variant: after the reminder block the loop goes to the next record.
AfterAttemptNextRecord(s) == Seek(NextPair(s))

\* Where control goes when a block is over: the escalation block after the
\* reminder block, the next record after the escalation block.
AfterAttempt(s) ==
  Seek(IF s.kind = REMINDER THEN [ClearAttempt(s) EXCEPT !.kind = ESCALATION] ELSE NextPair(s))

\* Variant: created is incremented before the result of the claim is looked at.
ClaimCountsEvery(p) ==
  LET s == sw[p]
      res == create_log_or_skip(ledger, CurRecordId(s), CurRuleId(s), s.kind, s.run_date)
  IN /\ ledger' = res.table
     /\ IF res.ok
        THEN /\ sw' = [sw EXCEPT ![p] = [s EXCEPT !.pc = "claimed", !.created = @ + 1,
                                                  !.log = res.log,
                                                  !.won = @ \cup {CurKey(s)}]]
             /\ tickets' = Inc(tickets, CurKey(s))
        ELSE /\ sw' = [sw EXCEPT ![p] = AfterAttempt([s EXCEPT !.created = @ + 1,
                                                               !.skipped = @ + 1,
                                                               !.lost = @ \cup {CurKey(s)}])]
             /\ UNCHANGED tickets
     /\ UNCHANGED <<recStatus, sendCalls, completed, runs, call>>

\* log, ok = _create_log_or_skip(...); if not ok: skipped += 1 else: created += 1
Claim(p) ==
  LET s == sw[p]
      res == create_log_or_skip(ledger, CurRecordId(s), CurRuleId(s), s.kind, s.run_date)
  IN /\ ledger' = res.table
     /\ IF res.ok
        THEN /\ sw' = [sw EXCEPT ![p] = [s EXCEPT !.pc = "claimed", !.created = @ + 1,
                                                  !.log = res.log,
                                                  !.won = @ \cup {CurKey(s)}]]
             /\ tickets' = Inc(tickets, CurKey(s))
        ELSE /\ sw' = [sw EXCEPT ![p] = AfterAttempt([s EXCEPT !.skipped = @ + 1,
                                                               !.lost = @ \cup {CurKey(s)}])]
             /\ UNCHANGED tickets
     /\ UNCHANGED <<recStatus, sendCalls, completed, runs, call>>

Start(p, org_id, run_date) ==
  /\ ~Running(p)
  /\ runs < MaxRuns
  /\ runs' = runs + 1
  /\ sw' = [sw EXCEPT ![p] =
              Seek([IdleSweep EXCEPT !.pc = "eval", !.org_id = org_id, !.run_date = run_date,
                                     !.rules = EnabledRules(org_id),
                                     !.records = FetchRecords(org_id),
                                     !.rerun = (<<org_id, run_date>> \in completed)])]
  /\ UNCHANGED <<ledger, recStatus, sendCalls, tickets, completed, call>>

\* Both loops exhausted: return the summary.
Finish(p) ==
  /\ sw[p].pc = "eval"
  /\ sw[p].ri > Len(sw[p].rules) \/ sw[p].records = <<>>
  /\ sw' = [sw EXCEPT ![p].pc = "done"]
  /\ completed' = completed \cup {<<sw[p].org_id, sw[p].run_date>>}
  /\ UNCHANGED <<ledger, recStatus, sendCalls, tickets, runs, call>>


\* The reminder block: the reminder is due, claim its key.
ClaimReminder(p) ==
  /\ AtPair(p)
  /\ sw[p].kind = REMINDER
  /\ Claim(p)

\* The escalation block: the escalation is due and not suppressed, claim its key.
ClaimEscalation(p) ==
  /\ AtPair(p)
  /\ sw[p].kind = ESCALATION
  /\ Claim(p)

\* Recipient resolution of the claimed attempt.
OwnerEmail(record) == IF record.owner = 0 THEN None ELSE Users[record.owner].email

\* Owner, users and rules do not change during a behaviour: the resolution
\* of each (record, rule, kind) is computed once.
RecipientsOf ==
  [rec \in RecordIds, rule \in RuleIds, kind \in NotificationKind |->
     IF kind = REMINDER
     THEN safe_emails(<<OwnerEmail(Records[rec])>>)
     ELSE LET manual == safe_emails(EmailsOf(Rules[rule].escalation_recipients))
          IN IF manual # <<>> THEN manual
             ELSE get_org_managers_emails(Records[rec].organization)]

Recipients(s) == RecipientsOf[CurRecordId(s), CurRuleId(s), s.kind]

SkipReason(kind) ==
  IF kind = REMINDER THEN <<"No owner email to send reminder.">>
  ELSE <<"No escalation recipients configured and no org managers found.">>

KindLabel(kind) == IF kind = REMINDER THEN "Reminder" ELSE "Escalation"

\* Variant: a claimed attempt without recipients is recorded as a failure.
ResolveSkipAsFailed(p) ==
  /\ sw[p].pc = "claimed"
  /\ Recipients(sw[p]) = <<>>
  /\ LET s == sw[p]
         log == [s.log EXCEPT !.status = FAILED, !.error_message = SkipReason(s.kind)]
     IN /\ ledger' = SaveLog(ledger, log, {"status", "error_message"})
        /\ sw' = [sw EXCEPT ![p] = AfterAttempt([s EXCEPT !.failed = @ + 1])]
  /\ UNCHANGED <<recStatus, sendCalls, tickets, completed, runs, call>>

\* Variant: the skipped status is set on the object and never saved.
ResolveSkipUnsaved(p) ==
  /\ sw[p].pc = "claimed"
  /\ Recipients(sw[p]) = <<>>
  /\ sw' = [sw EXCEPT ![p] = AfterAttempt([sw[p] EXCEPT !.skipped = @ + 1])]
  /\ UNCHANGED <<ledger, recStatus, sendCalls, tickets, completed, runs, call>>

\* if not to_emails: status = SKIPPED, save, skipped += 1
ResolveSkip(p) ==
  /\ sw[p].pc = "claimed"
  /\ Recipients(sw[p]) = <<>>
  /\ LET s == sw[p]
         log == [s.log EXCEPT !.status = SKIPPED, !.error_message = SkipReason(s.kind)]
     IN /\ ledger' = SaveLog(ledger, log, {"status", "error_message"})
        /\ sw' = [sw EXCEPT ![p] = AfterAttempt([s EXCEPT !.skipped = @ + 1])]
  /\ UNCHANGED <<recStatus, sendCalls, tickets, completed, runs, call>>

\* else: render and _send_email(...), which returns ...
SendOk(p) ==
  /\ sw[p].pc = "claimed"
  /\ Recipients(sw[p]) # <<>>
  /\ LET s == sw[p] IN
       /\ sw' = [sw EXCEPT ![p] =
                   [s EXCEPT !.pc = "sent", !.to_emails = Recipients(s),
                             !.subject = render_subject(CurRule(s), CurRecord(s),
                                                        KindLabel(s.kind), DaysLeft(s))]]
       /\ sendCalls' = Inc(sendCalls, CurKey(s))
  /\ UNCHANGED <<ledger, recStatus, tickets, completed, runs, call>>

\* ... or raises e.
SendRaise(p, e) ==
  /\ sw[p].pc = "claimed"
  /\ Recipients(sw[p]) # <<>>
  /\ LET s == sw[p] IN
       /\ sw' = [sw EXCEPT ![p] = [s EXCEPT !.pc = "raised", !.to_emails = Recipients(s), !.err = e]]
       /\ sendCalls' = Inc(sendCalls, CurKey(s))
  /\ UNCHANGED <<ledger, recStatus, tickets, completed, runs, call>>

\* Variant: after a sent reminder the run stores a fresh status on the record.
FinalizeSentTouchesRecord(p) ==
  /\ sw[p].pc = "sent"
  /\ LET s == sw[p]
         log == mark_sent(s.log, s.to_emails, s.subject)
     IN /\ ledger' = SaveLog(ledger, log, {"status", "sent_at", "recipients", "payload_summary"})
        /\ sw' = [sw EXCEPT ![p] = AfterAttempt([s EXCEPT !.sent = @ + 1])]
        /\ recStatus' = [recStatus EXCEPT ![CurRecordId(s)] =
                           IF DaysLeft(s) < 0 THEN "expired" ELSE "expiring_soon"]
  /\ UNCHANGED <<sendCalls, tickets, completed, runs, call>>

\* log.mark_sent(...); log.save(...); sent += 1
FinalizeSent(p) ==
  /\ sw[p].pc = "sent"
  /\ LET s == sw[p]
         log == mark_sent(s.log, s.to_emails, s.subject)
     IN /\ ledger' = SaveLog(ledger, log, {"status", "sent_at", "recipients", "payload_summary"})
        /\ sw' = [sw EXCEPT ![p] = AfterAttempt([s EXCEPT !.sent = @ + 1])]
  /\ UNCHANGED <<recStatus, sendCalls, tickets, completed, runs, call>>

\* Variant: the handler records the failure and leaves both loops.
FinalizeFailedAbort(p) ==
  /\ sw[p].pc = "raised"
  /\ LET s == sw[p]
         log == mark_failed(s.log, s.err)
     IN /\ ledger' = SaveLog(ledger, log, {"status", "error_message"})
        /\ sw' = [sw EXCEPT ![p] = [ClearAttempt(s) EXCEPT !.failed = @ + 1,
                                                           !.ri = Len(s.rules) + 1, !.ci = 1,
                                                           !.kind = REMINDER]]
  /\ UNCHANGED <<recStatus, sendCalls, tickets, completed, runs, call>>

\* except Exception as e: log.mark_failed(str(e)); log.save(...); failed += 1
FinalizeFailed(p) ==
  /\ sw[p].pc = "raised"
  /\ LET s == sw[p]
         log == mark_failed(s.log, s.err)
     IN /\ ledger' = SaveLog(ledger, log, {"status", "error_message"})
        /\ sw' = [sw EXCEPT ![p] = AfterAttempt([s EXCEPT !.failed = @ + 1])]
  /\ UNCHANGED <<recStatus, sendCalls, tickets, completed, runs, call>>

\* Variant: the kill takes the uncommitted-looking pending row with it.
CrashDropsPending(p) ==
  /\ Running(p)
  /\ sw' = [sw EXCEPT ![p] = IdleSweep]
  /\ ledger' = {r \in ledger : ~(r.id = sw[p].log.id /\ r.status = PENDING)}
  /\ UNCHANGED <<recStatus, sendCalls, tickets, completed, runs, call>>

\* The process running the sweep is killed.
Crash(p) ==
  /\ Running(p)
  /\ sw' = [sw EXCEPT ![p] = IdleSweep]
  /\ UNCHANGED <<ledger, recStatus, sendCalls, tickets, completed, runs, call>>

Next ==
  \/ \E p \in Sweeps, o \in Orgs, d \in RunDates : Start(p, o, d)
  \/ \E p \in Sweeps : ClaimReminder(p)
  \/ \E p \in Sweeps : ClaimEscalation(p)
  \/ \E p \in Sweeps : ResolveSkip(p)
  \/ \E p \in Sweeps : SendOk(p)
  \/ \E p \in Sweeps, e \in SendErrors : SendRaise(p, e)
  \/ \E p \in Sweeps : FinalizeSent(p)
  \/ \E p \in Sweeps : FinalizeFailed(p)
  \/ \E p \in Sweeps : Finish(p)
  \/ \E p \in Sweeps : Crash(p)

Spec == Init /\ [][Next]_vars

\* ------------------------------------------------------------------------
\* The same engine on a store whose writes can fail with a database error
\* that is not an IntegrityError (OperationalError and the like).
\* ------------------------------------------------------------------------
\* What a failing database statement raises (str(e)).
StoreErrors == { <<"database is locked">> }

\* The run is left by the exception e: its locals are gone, the caller sees e.
Aborted(s, e) ==
  [IdleSweep EXCEPT !.pc = "aborted", !.org_id = s.org_id, !.run_date = s.run_date, !.err = e]

\* NotificationLog.objects.create raises e: only IntegrityError is caught in
\* _create_log_or_skip, the call is outside the try block of the loop body,
\* so e leaves run_notifications_for_org.  The atomic block leaves no row.
ClaimStoreError(p, e) ==
  /\ AtPair(p)
  /\ sw' = [sw EXCEPT ![p] = Aborted(sw[p], e)]
  /\ UNCHANGED <<ledger, recStatus, sendCalls, tickets, completed, runs, call>>

\* The save of the skipped status raises e inside the try block: except
\* Exception catches it, the row is still pending.
ResolveSkipStoreError(p, e) ==
  /\ sw[p].pc = "claimed"
  /\ Recipients(sw[p]) = <<>>
  /\ LET s == sw[p]
         log == [s.log EXCEPT !.status = SKIPPED, !.error_message = SkipReason(s.kind)]
     IN sw' = [sw EXCEPT ![p] = [s EXCEPT !.pc = "raised", !.log = log, !.err = e]]
  /\ UNCHANGED <<ledger, recStatus, sendCalls, tickets, completed, runs, call>>

\* The save after mark_sent raises e inside the try block: except Exception
\* catches it, the message is out and the row is still pending.
FinalizeSentStoreError(p, e) ==
  /\ sw[p].pc = "sent"
  /\ LET s == sw[p]
         log == mark_sent(s.log, s.to_emails, s.subject)
     IN sw' = [sw EXCEPT ![p] = [s EXCEPT !.pc = "raised", !.log = log, !.err = e]]
  /\ UNCHANGED <<ledger, recStatus, sendCalls, tickets, completed, runs, call>>

\* The save in the handler raises e: nothing catches it, e leaves the run.
FinalizeFailedStoreError(p, e) ==
  /\ sw[p].pc = "raised"
  /\ sw' = [sw EXCEPT ![p] = Aborted(sw[p], e)]
  /\ UNCHANGED <<ledger, recStatus, sendCalls, tickets, completed, runs, call>>

NextStore ==
  \/ Next
  \/ \E p \in Sweeps, e \in StoreErrors : ClaimStoreError(p, e)
  \/ \E p \in Sweeps, e \in StoreErrors : ResolveSkipStoreError(p, e)
  \/ \E p \in Sweeps, e \in StoreErrors : FinalizeSentStoreError(p, e)
  \/ \E p \in Sweeps, e \in StoreErrors : FinalizeFailedStoreError(p, e)

SpecStore == Init /\ [][NextStore]_vars

\* ------------------------------------------------------------------------
\* NotificationRule.matches_record called on any rule and record.
\* ------------------------------------------------------------------------
RecordTypes == {"license", "permit"}
RecordCategories == {"hse", "vendor"}

MatchRules ==
  [organization : Orgs, applies_to_all : BOOLEAN,
   record_type : RecordTypes \cup {""}, category : RecordCategories \cup {""}]

MatchRecords ==
  [organization : Orgs, record_type : RecordTypes, category : RecordCategories]

InitMatch ==
  /\ EngineInit
  /\ call \in [fn : {"matches_record"}, rule : MatchRules, record : MatchRecords,
                result : {"pending"}]

\* The method only reads self and record and returns a bool.
MatchesRecord ==
  /\ call.fn = "matches_record"
  /\ call.result = "pending"
  /\ call' = [call EXCEPT !.result = IF matches_record(call.rule, call.record)
                                      THEN "True" ELSE "False"]
  /\ UNCHANGED engine

NextMatch == MatchesRecord

SpecMatch == InitMatch /\ [][NextMatch]_vars

\* ------------------------------------------------------------------------
\* NotificationRule.clean, and the admin form that validates and saves a rule.
\* A submitted JSON value is [t, v]: t is the Python type json.loads gives
\* it ("list", "dict", "NoneType") and v the elements of a list.  An element
\* is [t, v]: its Python type ("int", "bool", "str") and its number (True is
\* the number 1; the number of a str is never looked at).
\* ------------------------------------------------------------------------
MaxOffsets == 2                   \* length of a submitted list

JsonElements ==
  { [t |-> "int", v |-> -1], [t |-> "int", v |-> 0], [t |-> "int", v |-> 1],
    [t |-> "bool", v |-> 1], [t |-> "str", v |-> 7] }

JsonValues ==
  { [t |-> "list", v |-> xs] : xs \in UNION {[1..n -> JsonElements] : n \in 0..MaxOffsets} }
    \cup { [t |-> "NoneType", v |-> <<>>], [t |-> "dict", v |-> <<>>] }

RuleInputs ==
  [applies_to_all : BOOLEAN, record_type : {"", "license"}, category : {"", "hse"},
   offsets_days : JsonValues, escalate_offsets_days : JsonValues]

\* isinstance(x, int): bool is a subclass of int.
isinstance_int(x) == x.t \in {"int", "bool"}

\* not isinstance(x, int) or x < 0
BadOffset(x) == ~isinstance_int(x) \/ x.v < 0

\* set(normalized): equal numbers are one element (True == 1), the first kept.
RECURSIVE SetOf(_, _)
SetOf(xs, seen) ==
  IF xs = <<>> THEN <<>>
  ELSE IF Head(xs).v \in seen THEN SetOf(Tail(xs), seen)
       ELSE <<Head(xs)>> \o SetOf(Tail(xs), seen \cup {Head(xs).v})

\* Variant: reverse=True is missing.
RECURSIVE SortedReverseAscending(_)
SortedReverseAscending(xs) ==
  IF xs = <<>> THEN <<>>
  ELSE LET i == CHOOSE j \in DOMAIN xs : \A k \in DOMAIN xs : xs[j].v <= xs[k].v
       IN <<xs[i]>> \o SortedReverseAscending(SubSeq(xs, 1, i - 1) \o SubSeq(xs, i + 1, Len(xs)))

\* sorted(..., reverse=True) of elements with distinct numbers.
RECURSIVE SortedReverse(_)
SortedReverse(xs) ==
  IF xs = <<>> THEN <<>>
  ELSE LET i == CHOOSE j \in DOMAIN xs : \A k \in DOMAIN xs : xs[j].v >= xs[k].v
       IN <<xs[i]>> \o SortedReverse(SubSeq(xs, 1, i - 1) \o SubSeq(xs, i + 1, Len(xs)))

\* Variant: both dimensions are required.
ScopeMissingEither(rule) ==
  ~rule.applies_to_all /\ ~(rule.record_type # "" /\ rule.category # "")

\* not self.applies_to_all and not (self.record_type or self.category)
ScopeMissing(rule) ==
  ~rule.applies_to_all /\ ~(rule.record_type # "" \/ rule.category # "")

\* clean(): the field the ValidationError is raised for ("" when clean
\* returns) and the rule as the call leaves it in memory.
clean(rule) ==
  IF rule.offsets_days.t # "list" THEN [error |-> "offsets_days", rule |-> rule]
  ELSE IF \E i \in DOMAIN rule.offsets_days.v : BadOffset(rule.offsets_days.v[i])
  THEN [error |-> "offsets_days", rule |-> rule]
  ELSE LET r1 == [rule EXCEPT !.offsets_days.v = SortedReverse(SetOf(@, {}))]
       IN IF ScopeMissing(r1) THEN [error |-> "__all__", rule |-> r1]
          ELSE IF r1.escalate_offsets_days.t # "list"
          THEN [error |-> "escalate_offsets_days", rule |-> r1]
          ELSE IF \E i \in DOMAIN r1.escalate_offsets_days.v :
                     BadOffset(r1.escalate_offsets_days.v[i])
          THEN [error |-> "escalate_offsets_days", rule |-> r1]
          ELSE [error |-> "",
                rule |-> [r1 EXCEPT !.escalate_offsets_days.v = SortedReverse(SetOf(@, {}))]]

\* No row of the rule in the table yet.
NoRule == [applies_to_all |-> TRUE, record_type |-> "", category |-> "",
           offsets_days |-> [t |-> "NoneType", v |-> <<>>],
           escalate_offsets_days |-> [t |-> "NoneType", v |-> <<>>]]

\* The admin's add view has built the instance from the submitted form.
InitClean ==
  /\ EngineInit
  /\ call \in { [fn |-> "save_rule", state |-> "submitted", input |-> r, rule |-> r,
                  error |-> "", stored |-> NoRule] : r \in RuleInputs }

\* Form validation: full_clean() calls clean() on the instance.
FormClean ==
  /\ call.fn = "save_rule"
  /\ call.state = "submitted"
  /\ LET res == clean(call.rule)
     IN call' = [call EXCEPT !.state = IF res.error = "" THEN "valid" ELSE "invalid",
                             !.rule = res.rule, !.error = res.error]
  /\ UNCHANGED engine

\* The form is valid: save_model saves the instance.
SaveModel ==
  /\ call.fn = "save_rule"
  /\ call.state = "valid"
  /\ call' = [call EXCEPT !.state = "saved", !.stored = call.rule]
  /\ UNCHANGED engine

\* The change view submits the stored rule as it is: clean() runs on it.
CleanStored ==
  /\ call.fn = "save_rule"
  /\ call.state = "saved"
  /\ LET res == clean(call.stored)
     IN call' = [call EXCEPT !.state = "revalidated", !.rule = res.rule, !.error = res.error]
  /\ UNCHANGED engine

NextClean ==
  \/ FormClean
  \/ SaveModel
  \/ CleanStored

SpecClean == InitClean /\ [][NextClean]_vars

\* ------------------------------------------------------------------------
\* The handler of a failed dispatch on error texts of any length: an error
\* text is a sequence of characters here.
\* ------------------------------------------------------------------------
MaxErrorText == 6000              \* length of the longest error text

\* Lengths next to the limit of mark_failed, short ones and the longest.
ErrorLens ==
  (0..2) \cup ((MaxErrorLen - 12)..(MaxErrorLen + 12)) \cup {MaxErrorText}

\* str(e): one repeated character, or the digits in turn.
ErrorTexts ==
  { [i \in 1..n |-> "x"] : n \in ErrorLens }
    \cup { [i \in 1..n |-> ToString(i % 10)] : n \in ErrorLens }

\* The pending row of a claimed attempt.
ClaimedRow == create_log_or_skip({}, 1, 1, REMINDER, 1).log

\* _send_email has raised e for a claimed attempt.
InitFail ==
  /\ EngineInit
  /\ call \in { [fn |-> "mark_failed", state |-> "raised", error |-> e,
                  log |-> ClaimedRow, stored |-> ClaimedRow] : e \in ErrorTexts }

\* log.mark_failed(str(e))
MarkFailed ==
  /\ call.fn = "mark_failed"
  /\ call.state = "raised"
  /\ call' = [call EXCEPT !.state = "marked", !.log = mark_failed(call.log, call.error)]
  /\ UNCHANGED engine

\* log.save(update_fields=["status", "error_message", "updated_at"])
SaveFailed ==
  /\ call.fn = "mark_failed"
  /\ call.state = "marked"
  /\ LET table == SaveLog({call.stored}, call.log, {"status", "error_message"})
     IN call' = [call EXCEPT !.state = "saved", !.stored = CHOOSE r \in table : TRUE]
  /\ UNCHANGED engine

NextFail ==
  \/ MarkFailed
  \/ SaveFailed

SpecFail == InitFail /\ [][NextFail]_vars


\* ------------------------------------------------------------------------
\* The run_notifications management command. The organization table is the
\* is_active flag of each tenant; --org-id is an int or absent (None); the
\* sweep of each selected tenant is the engine's own, run to its return.
\* ------------------------------------------------------------------------
OrgIdOptions ==
  {[given |-> FALSE, id |-> 0]} \cup {[given |-> TRUE, id |-> i] : i \in {0, 3} \cup Orgs}

\* Python truth value of options["org_id"]: None and 0 are false.
Truthy(opt) == opt.given /\ opt.id # 0

CommandSweep == "cron"

ZeroTotal == [created |-> 0, sent |-> 0, failed |-> 0, skipped |-> 0]

\* qs = Organization.objects.filter(is_active=True); if org_id: qs = qs.filter(id=org_id)
CommandQueryset(is_active, opt) ==
  SortedSeq({o \in Orgs : is_active[o] /\ (Truthy(opt) => o = opt.id)})

\* The dict run_notifications_for_org returns.
Summary(s) ==
  [organization_id |-> s.org_id, date |-> s.run_date,
   created |-> s.created, sent |-> s.sent, failed |-> s.failed, skipped |-> s.skipped]

\* for k in total: total[k] += summary[k]
AddSummary(total, summary) ==
  [k \in DOMAIN total |-> total[k] + summary[k]]

InitCommand ==
  /\ EngineInit
  /\ call \in {[fn |-> "run_notifications", pc |-> "start", is_active |-> a, org_id |-> o,
                run_date |-> d, qs |-> <<>>, summaries |-> <<>>, total |-> ZeroTotal] :
               a \in [Orgs -> BOOLEAN], o \in OrgIdOptions, d \in RunDates}

\* The queryset is built and the totals are zeroed.
CommandFilter ==
  /\ call.fn = "run_notifications"
  /\ call.pc = "start"
  /\ call' = [call EXCEPT !.pc = "loop", !.qs = CommandQueryset(call.is_active, call.org_id),
                          !.total = ZeroTotal]
  /\ UNCHANGED engine

\* The loop body calls run_notifications_for_org(org.id, run_date) ...
CommandCall ==
  /\ call.fn = "run_notifications"
  /\ call.pc = "loop"
  /\ call.qs # <<>>
  /\ sw[CommandSweep].pc = "idle"
  /\ Start(CommandSweep, Head(call.qs), call.run_date)

\* ... and, when it has returned, adds its summary to the totals.
CommandReturn ==
  /\ call.fn = "run_notifications"
  /\ call.pc = "loop"
  /\ sw[CommandSweep].pc = "done"
  /\ call' = [call EXCEPT !.qs = Tail(@),
                          !.summaries = Append(@, Summary(sw[CommandSweep])),
                          !.total = AddSummary(@, Summary(sw[CommandSweep]))]
  /\ sw' = [sw EXCEPT ![CommandSweep] = IdleSweep]
  /\ UNCHANGED <<ledger, recStatus, sendCalls, tickets, completed, runs>>

\* The loop is over: the totals are written out.
CommandEnd ==
  /\ call.fn = "run_notifications"
  /\ call.pc = "loop"
  /\ call.qs = <<>>
  /\ call' = [call EXCEPT !.pc = "end"]
  /\ UNCHANGED engine

NextCommand ==
  \/ CommandFilter
  \/ CommandCall
  \/ ClaimReminder(CommandSweep)
  \/ ClaimEscalation(CommandSweep)
  \/ ResolveSkip(CommandSweep)
  \/ SendOk(CommandSweep)
  \/ \E e \in SendErrors : SendRaise(CommandSweep, e)
  \/ FinalizeSent(CommandSweep)
  \/ FinalizeFailed(CommandSweep)
  \/ Finish(CommandSweep)
  \/ CommandReturn
  \/ CommandEnd

SpecCommand == InitCommand /\ [][NextCommand]_vars


\* ------------------------------------------------------------------------
\* The catalog changes while a sweep is in progress: a record is saved (admin
\* form or any caller of Record.save) with a status chosen by the user.
\* ------------------------------------------------------------------------
MaxSaves == 1                     \* records saved in one behaviour

SoonDays == 30

\* Variant: the last day of the expiring-soon window is left out.
compute_status_db_short_window(status, expiry_date, today, soon_days) ==
  IF status = "archived" THEN "archived"
  ELSE IF expiry_date = NoDate THEN status
  ELSE IF expiry_date < today THEN "expired"
  ELSE IF expiry_date < today + soon_days THEN "expiring_soon"
  ELSE IF status = "renewed" THEN "renewed"
  ELSE "active"

\* Record.compute_status_db with today given.
compute_status_db(status, expiry_date, today, soon_days) ==
  IF status = "archived" THEN "archived"
  ELSE IF expiry_date = NoDate THEN status
  ELSE IF expiry_date < today THEN "expired"
  ELSE IF expiry_date <= today + soon_days THEN "expiring_soon"
  ELSE IF status = "renewed" THEN "renewed"
  ELSE "active"

CatalogSweep == "cron"

InitCatalog ==
  /\ EngineInit
  /\ call = [fn |-> "record_save", saves |-> 0]

\* Record.save: self.status = self.compute_status_db(); super().save()
SaveRecord(r, status, today) ==
  /\ call.fn = "record_save"
  /\ call.saves < MaxSaves
  /\ call' = [call EXCEPT !.saves = @ + 1]
  /\ recStatus' = [recStatus EXCEPT ![r] = compute_status_db(status, Records[r].expiry_date, today, SoonDays)]
  /\ UNCHANGED <<ledger, sw, sendCalls, tickets, completed, runs>>

NextCatalog ==
  \/ \E org_id \in Orgs, run_date \in RunDates : Start(CatalogSweep, org_id, run_date)
  \/ ClaimReminder(CatalogSweep)
  \/ ClaimEscalation(CatalogSweep)
  \/ ResolveSkip(CatalogSweep)
  \/ SendOk(CatalogSweep)
  \/ \E e \in SendErrors : SendRaise(CatalogSweep, e)
  \/ FinalizeSent(CatalogSweep)
  \/ FinalizeFailed(CatalogSweep)
  \/ Finish(CatalogSweep)
  \/ \E r \in RecordIds, status \in RecordStatus, today \in RunDates : SaveRecord(r, status, today)

SpecCatalog == InitCatalog /\ [][NextCatalog]_vars


\* ------------------------------------------------------------------------
\* Runs that are not killed: the process executing run_notifications_for_org
\* keeps taking its next step, and _send_email returns or raises.
\* ------------------------------------------------------------------------
SweepStep(p) ==
  \/ ClaimReminder(p)
  \/ ClaimEscalation(p)
  \/ ResolveSkip(p)
  \/ SendOk(p)
  \/ \E e \in SendErrors : SendRaise(p, e)
  \/ FinalizeSent(p)
  \/ FinalizeFailed(p)
  \/ Finish(p)

LiveSweep == "cron"

NextLive ==
  \/ \E org_id \in Orgs, run_date \in RunDates : Start(LiveSweep, org_id, run_date)
  \/ SweepStep(LiveSweep)

\* What the process does by itself, whatever the transport answers: every
\* step of the loop but the return of _send_email, which either comes or is
\* replaced by the error the transport's timeout raises.
OwnStep(p) ==
  \/ ClaimReminder(p)
  \/ ClaimEscalation(p)
  \/ ResolveSkip(p)
  \/ \E e \in SendErrors : SendRaise(p, e)
  \/ FinalizeSent(p)
  \/ FinalizeFailed(p)
  \/ Finish(p)

SpecLive == Init /\ [][NextLive]_vars /\ WF_vars(OwnStep(LiveSweep))


\* ---------------------------------------------------------------------
\* Rendering of one message: _render_subject and _render_body applied to
\* templates and record fields drawn from small sets.
\* ---------------------------------------------------------------------

\* Longest custom template, in chunks.
MaxTemplate == 2

DefaultBody ==
  <<"Dear Team,\n\nThis is an automated ", "{kind}",
    " from EMSTEEL - IT Information Technology.\n\nRecord Details:\n- Title: ", "{title}",
    "\n- Reference No: ", "{ref}", "\n- Expiry Date: ", "{expiry}", "\n- Remaining: ", "{days}",
    " day(s)\n\nAction Required:\nPlease review and proceed with renewal / closure before the expiry date to maintain compliance and continuity.\n\nRegards,\nEMSTEEL - IT Information Technology\nIT Client Excellence\n">>

render_body(rule, record, kind, days_left) ==
  LET template == IF rule.email_body_template # <<>> THEN rule.email_body_template
                  ELSE DefaultBody
      r1 == Replace(template, "{kind}", <<kind>>)
      r2 == Replace(r1, "{title}", record.title)
      r3 == Replace(r2, "{ref}", IF record.reference_no # <<>> THEN record.reference_no ELSE <<"N/A">>)
      r4 == Replace(r3, "{expiry}", <<ToString(record.expiry_date)>>)
      r5 == Replace(r4, "{days}", <<ToString(days_left)>>)
  IN r5

\* Templates made of the placeholders, an unknown one, a blank and plain text.
Templates ==
  UNION { [1..n -> {"{kind}", "{title}", "{ref}", "{expiry}", "{days}", "{x}", " ", "a"}] :
            n \in 0..MaxTemplate }

\* One rule whose subject and body templates are both t, one record, one kind.
InitRender ==
  /\ EngineInit
  /\ call \in { [fn |-> "render", subject_done |-> FALSE, body_done |-> FALSE,
                 rule |-> [email_subject_template |-> t, email_body_template |-> t],
                 record |-> [title |-> ti, reference_no |-> ref, expiry_date |-> 1],
                 kind |-> k, days_left |-> 1, subject |-> <<>>, body |-> <<>>] :
                 t \in Templates, ti \in {<<>>, <<"ISO">>, <<"{days}">>},
                 ref \in {<<>>, <<"R-1">>}, k \in NotificationKind }

\* subject = _render_subject(rule, record, kind, days_left)
RenderSubject ==
  /\ call.fn = "render"
  /\ ~call.subject_done
  /\ call' = [call EXCEPT !.subject_done = TRUE,
                          !.subject = render_subject(call.rule, call.record, call.kind, call.days_left)]
  /\ UNCHANGED engine

\* body = _render_body(rule, record, kind, days_left)
RenderBody ==
  /\ call.fn = "render"
  /\ call.subject_done
  /\ ~call.body_done
  /\ call' = [call EXCEPT !.body_done = TRUE,
                          !.body = render_body(call.rule, call.record, call.kind, call.days_left)]
  /\ UNCHANGED engine

NextRender ==
  \/ RenderSubject
  \/ RenderBody

SpecRender == InitRender /\ [][NextRender]_vars


\* ---------------------------------------------------------------------
\* The from-address policy of _send_email, applied to mail settings drawn
\* from small sets. A setting is text cut into pieces; containment is
\* Python's substring test on those pieces.
\* ---------------------------------------------------------------------

\* Longest drawn setting, in pieces.
MaxSetting == 2

\* sub in s
Contains(s, sub) ==
  \E i \in 0..(Len(s) - Len(sub)) : SubSeq(s, i + 1, i + Len(sub)) = sub

FallbackMailbox == <<"no-reply", "@", "example.com">>

\* x or y on text settings: None and the empty text are falsy.
OrElse(x, y) == IF x = None \/ x = <<>> THEN y ELSE x

\* The from_email that reaches EmailMultiAlternatives.
from_email_default_only(host_user, default_from_email) ==
  LET mailbox == OrElse(host_user, FallbackMailbox)
      default_from == OrElse(default_from_email, <<>>)
  IN IF default_from # <<>> THEN default_from ELSE mailbox

from_email(host_user, default_from_email) ==
  LET mailbox == OrElse(host_user, FallbackMailbox)
      default_from == OrElse(default_from_email, <<>>)
  IN IF Contains(default_from, mailbox) THEN default_from ELSE mailbox

HostUsers ==
  {None, <<"zms", "@", "emsteel.com">>}
    \cup UNION { [1..n -> {"a", "@"}] : n \in 0..MaxSetting }

DefaultFroms ==
  {None}
    \cup UNION { [1..n -> {"a", "@", "N <"}] : n \in 0..(MaxSetting + 1) }
    \cup { <<"N <">> \o m \o <<">">> : m \in {<<"zms", "@", "emsteel.com">>, FallbackMailbox} }

\* _send_email is entered with the process settings as they are.
InitSend ==
  /\ EngineInit
  /\ call \in { [fn |-> "_send_email", state |-> "entered", EMAIL_HOST_USER |-> h,
                 DEFAULT_FROM_EMAIL |-> d, from_email |-> None] :
                 h \in HostUsers, d \in DefaultFroms }

\* The message is built with its from_email.
BuildMessage ==
  /\ call.fn = "_send_email"
  /\ call.state = "entered"
  /\ call' = [call EXCEPT !.state = "built",
                          !.from_email = from_email(call.EMAIL_HOST_USER, call.DEFAULT_FROM_EMAIL)]
  /\ UNCHANGED engine

\* msg.send(fail_silently=False) returns.
SendReturns ==
  /\ call.fn = "_send_email"
  /\ call.state = "built"
  /\ call' = [call EXCEPT !.state = "sent"]
  /\ UNCHANGED engine

\* msg.send(fail_silently=False) raises.
SendRaises ==
  /\ call.fn = "_send_email"
  /\ call.state = "built"
  /\ call' = [call EXCEPT !.state = "raised"]
  /\ UNCHANGED engine

NextSend ==
  \/ BuildMessage
  \/ SendReturns
  \/ SendRaises

SpecSend == InitSend /\ [][NextSend]_vars


\* ---------------------------------------------------------------------
\* _safe_emails applied to address lists drawn from a small set of entries,
\* and applied once more to its own result.
\* ---------------------------------------------------------------------

\* Longest drawn address list.
MaxEmails == 3

\* An address of n characters: "@" followed by letters.
LongAddress(n) == [i \in 1..n |-> IF i = 1 THEN "@" ELSE "a"]

EmailEntries ==
  { None, <<>>, <<" ">>, <<"m", "@", "x">>, <<" ", "m", "@", "x", " ">>, <<"n", "@", "y">>,
    <<"b", "a", "d">>, LongAddress(MaxEmailLen), LongAddress(MaxEmailLen + 1),
    <<" ">> \o LongAddress(MaxEmailLen) }

InitEmails ==
  /\ EngineInit
  /\ call \in { [fn |-> "_safe_emails", state |-> "entered", emails |-> l,
                 result |-> <<>>, again |-> <<>>] :
                 l \in UNION { [1..n -> EmailEntries] : n \in 0..MaxEmails } }

\* result = _safe_emails(emails)
FilterEmails ==
  /\ call.fn = "_safe_emails"
  /\ call.state = "entered"
  /\ call' = [call EXCEPT !.state = "filtered", !.result = safe_emails(call.emails)]
  /\ UNCHANGED engine

\* again = _safe_emails(result)
FilterAgain ==
  /\ call.fn = "_safe_emails"
  /\ call.state = "filtered"
  /\ call' = [call EXCEPT !.state = "refiltered", !.again = safe_emails(call.result)]
  /\ UNCHANGED engine

NextEmails ==
  \/ FilterEmails
  \/ FilterAgain

SpecEmails == InitEmails /\ [][NextEmails]_vars


\* ---------------------------------------------------------------------
\* One Record instance and its row: the status and expiry date are edited
\* on the instance, Record.save and Record.refresh_status store them, and
\* the days go by.
\* ---------------------------------------------------------------------

\* Last day on which a call is made.
MaxToday == 3

\* Number of save and refresh_status calls in a behaviour.
MaxStatusCalls == 2

\* Expiry dates before, on and after the end of the expiring-soon window of
\* each day.
RecordDates ==
  (1..MaxToday) \cup {t + SoonDays : t \in 1..MaxToday} \cup {MaxToday + SoonDays + 1}

\* A stored record, loaded into an instance.
InitRecord ==
  /\ EngineInit
  /\ call \in { [fn |-> "record", status |-> st, expiry_date |-> d, row_status |-> st,
                 row_expiry_date |-> d, today |-> t, at_save |-> st, saves |-> 0, calls |-> 0] :
                 st \in RecordStatus, d \in RecordDates, t \in 1..MaxToday }

\* A form or an admin edit assigns the status field of the instance.
SetStatus(status) ==
  /\ call.fn = "record"
  /\ call' = [call EXCEPT !.status = status]
  /\ UNCHANGED engine

\* A form or an admin edit assigns the expiry date of the instance.
SetExpiryDate(d) ==
  /\ call.fn = "record"
  /\ call' = [call EXCEPT !.expiry_date = d]
  /\ UNCHANGED engine

\* timezone.localdate() moves on.
NextDay ==
  /\ call.fn = "record"
  /\ call.today < MaxToday
  /\ call' = [call EXCEPT !.today = @ + 1]
  /\ UNCHANGED engine

\* Record.save(): the status is recomputed with the default window, then
\* every field is written.
RecordSave ==
  /\ call.fn = "record"
  /\ call.calls < MaxStatusCalls
  /\ LET status == compute_status_db(call.status, call.expiry_date, call.today, SoonDays)
     IN call' = [call EXCEPT !.calls = @ + 1, !.saves = @ + 1, !.at_save = call.status,
                             !.status = status, !.row_status = status,
                             !.row_expiry_date = call.expiry_date]
  /\ UNCHANGED engine

\* Record.refresh_status(save, soon_days): when the computed status differs
\* it is assigned, and with save the instance is saved with
\* update_fields=["status", "updated_at"], which recomputes the status with
\* the default window and writes it.
RefreshStatus(save, soon_days) ==
  /\ call.fn = "record"
  /\ call.calls < MaxStatusCalls
  /\ LET new_status == compute_status_db(call.status, call.expiry_date, call.today, soon_days)
         status == compute_status_db(new_status, call.expiry_date, call.today, SoonDays)
     IN IF new_status = call.status
        THEN call' = [call EXCEPT !.calls = @ + 1]
        ELSE IF save
        THEN call' = [call EXCEPT !.calls = @ + 1, !.saves = @ + 1, !.at_save = new_status,
                                  !.status = status, !.row_status = status]
        ELSE call' = [call EXCEPT !.calls = @ + 1, !.status = new_status]
  /\ UNCHANGED engine

NextRecord ==
  \/ \E status \in RecordStatus : SetStatus(status)
  \/ \E d \in RecordDates : SetExpiryDate(d)
  \/ NextDay
  \/ RecordSave
  \/ \E save \in BOOLEAN, soon_days \in {SoonDays, SoonDays + 1} : RefreshStatus(save, soon_days)

SpecRecord == InitRecord /\ [][NextRecord]_vars


\* ---------------------------------------------------------------------
\* Attachment.save for new attachments, called by concurrent requests:
\* the query for the last version and the INSERT are separate statements.
\* ---------------------------------------------------------------------

\* Number of attachments created in a behaviour.
MaxAttachments == 3

Creators == {"request_a", "request_b"}

AttachmentTypes == {"evidence", "certificate_copy"}

\* version = models.PositiveIntegerField(default=1)
DefaultVersion == 1

IdleCreator == [pc |-> "idle", record_id |-> 0, file_type |-> "", last |-> 0, version |-> 0]

\* .order_by("-version").values_list("version", flat=True).first(); 0 for None.
LastVersion(table, record_id, file_type) ==
  LET versions == {a.version : a \in {x \in table : x.record_id = record_id /\ x.file_type = file_type}}
  IN IF versions = {} THEN 0 ELSE CHOOSE v \in versions : \A w \in versions : w <= v

InitAttach ==
  /\ EngineInit
  /\ call = [fn |-> "attachment_save", table |-> {}, begun |-> 0,
             creator |-> [p \in Creators |-> IdleCreator]]

\* Attachment.objects.create(record=..., file_type=...): a new instance with
\* the default version enters save().
BeginCreate(p, record_id, file_type) ==
  /\ call.fn = "attachment_save"
  /\ call.creator[p].pc = "idle"
  /\ call.begun < MaxAttachments
  /\ call' = [call EXCEPT !.begun = @ + 1,
                          !.creator[p] = [pc |-> "adding", record_id |-> record_id,
                                          file_type |-> file_type, last |-> 0,
                                          version |-> DefaultVersion]]
  /\ UNCHANGED engine

\* The query for the last version of the record and file type, and the
\* version derived from it.
ReadLast(p) ==
  /\ call.fn = "attachment_save"
  /\ call.creator[p].pc = "adding"
  /\ LET c == call.creator[p]
         last == IF c.record_id # 0 /\ c.file_type # ""
                 THEN LastVersion(call.table, c.record_id, c.file_type) ELSE 0
     IN call' = [call EXCEPT !.creator[p] =
                   [c EXCEPT !.pc = "read", !.last = last,
                             !.version = IF last # 0
                                         THEN (IF last + 1 > 1 THEN last + 1 ELSE 1)
                                         ELSE @]]
  /\ UNCHANGED engine

\* super().save(): the INSERT. before is the highest version stored for the
\* record and file type when the row is inserted (history).
InsertAttachment(p) ==
  /\ call.fn = "attachment_save"
  /\ call.creator[p].pc = "read"
  /\ LET c == call.creator[p]
         row == [id |-> Cardinality(call.table) + 1, record_id |-> c.record_id,
                 file_type |-> c.file_type, version |-> c.version,
                 before |-> LastVersion(call.table, c.record_id, c.file_type)]
     IN call' = [call EXCEPT !.table = @ \cup {row}, !.creator[p] = IdleCreator]
  /\ UNCHANGED engine

NextAttach ==
  \/ \E p \in Creators, record_id \in RecordIds, file_type \in AttachmentTypes :
       BeginCreate(p, record_id, file_type)
  \/ \E p \in Creators : ReadLast(p)
  \/ \E p \in Creators : InsertAttachment(p)

SpecAttach == InitAttach /\ [][NextAttach]_vars


\* ------------------------------------------------------------------------
\* Properties
\* ------------------------------------------------------------------------
RowsOf(k) == {r \in ledger : KeyOf(r) = k}
Attempted(p) == sw[p].won \cup sw[p].lost

\* C1: the ledger never holds two rows with the same
\* (record, rule, kind, trigger_date), whatever sweeps ran.
C1_UniqueLog == \A r1, r2 \in ledger : KeyOf(r1) = KeyOf(r2) => r1 = r2

\* A sweep tried to claim a key that already had its row.
C1_Witness ==
  \E p \in Sweeps : \E k \in sw[p].lost : Cardinality(RowsOf(k)) = 1

\* C2: of all the claims made for one key, by concurrent or repeated sweeps,
\* exactly one returned a log; every other sweep that tried got (None, False)
\* and went on (the key is in its lost set, counted as skipped).
C2_ExactlyOneTicket ==
  /\ \A k \in DOMAIN tickets : tickets[k] = 1
  /\ \A p \in Sweeps : Attempted(p) \subseteq DOMAIN tickets
  /\ \A p, q \in Sweeps : p # q => sw[p].won \cap sw[q].won = {}
  /\ \A p \in Sweeps : sw[p].skipped >= Cardinality(sw[p].lost)

\* Two sweeps are running at once; one holds the pending log of a key and
\* the other has been refused the same key.
C2_Witness ==
  \E p, q \in Sweeps :
    /\ p # q
    /\ sw[p].pc = "claimed"
    /\ Running(q)
    /\ CurKey(sw[p]) \in sw[p].won
    /\ CurKey(sw[p]) \in sw[q].lost


\* What the run of org on date is expected to attempt, stated on the catalog.
RowOf(k) == CHOOSE r \in ledger : KeyOf(r) = k

MatchingPair(rec, rule, org) ==
  /\ Rules[rule].enabled
  /\ Rules[rule].organization = org
  /\ Records[rec].organization = org
  /\ recStatus[rec] # "archived"
  /\ Records[rec].expiry_date # NoDate
  /\ matches_record(Rules[rule], Records[rec])

ExpectedReminder(rec, rule, org, date) ==
  /\ MatchingPair(rec, rule, org)
  /\ (Records[rec].expiry_date - date) \in Range(Rules[rule].offsets_days)

ExpectedEscalation(rec, rule, org, date) ==
  /\ MatchingPair(rec, rule, org)
  /\ Rules[rule].escalate_enabled
  /\ (Records[rec].expiry_date - date) \in Range(Rules[rule].escalate_offsets_days)
  /\ recStatus[rec] \notin {"renewed", "archived"}

DueReminders(org, date) ==
  {<<rec, rule, REMINDER, date>> : <<rec, rule>> \in
     {x \in RecordIds \X RuleIds : ExpectedReminder(x[1], x[2], org, date)}}

DueEscalations(org, date) ==
  {<<rec, rule, ESCALATION, date>> : <<rec, rule>> \in
     {x \in RecordIds \X RuleIds : ExpectedEscalation(x[1], x[2], org, date)}}

DueKeys(org, date) == DueReminders(org, date) \cup DueEscalations(org, date)

\* C3: _send_email is called at most once per key, and only for a key that
\* was claimed: no retry after a failure, no re-send by a later run.
C3_SendAtMostOnce ==
  \A k \in DOMAIN sendCalls : sendCalls[k] = 1 /\ Count(tickets, k) = 1

\* The send for a key raised, its log is failed, and a later attempt on the
\* key by a sweep was refused.
C3_Witness ==
  \E p \in Sweeps : \E k \in sw[p].lost :
    Count(sendCalls, k) = 1 /\ RowOf(k).status = FAILED

\* C4: a run started after a run for the same org and date has returned
\* creates, sends and fails nothing, and its skipped count is the number of
\* due attempts.
C4_SecondRunSkipsAll ==
  \A p \in Sweeps :
    (sw[p].pc = "done" /\ sw[p].rerun) =>
      /\ sw[p].created = 0
      /\ sw[p].sent = 0
      /\ sw[p].failed = 0
      /\ sw[p].won = {}
      /\ sw[p].skipped = Cardinality(DueKeys(sw[p].org_id, sw[p].run_date))

\* A second run has returned and had several due attempts to skip.
C4_Witness ==
  \E p \in Sweeps : sw[p].pc = "done" /\ sw[p].rerun /\ sw[p].skipped >= 3

\* C5: a run attempts a reminder key only for a pair that satisfies the
\* reminder condition, and a run that has returned attempted every such key.
C5_ReminderIff ==
  \A p \in Sweeps :
    /\ {k \in Attempted(p) : k[3] = REMINDER} \subseteq DueReminders(sw[p].org_id, sw[p].run_date)
    /\ sw[p].pc = "done" =>
         DueReminders(sw[p].org_id, sw[p].run_date) \subseteq Attempted(p)

\* A run has returned, having attempted two reminders while a disabled rule
\* and an archived record of the same org were left out.
C5_Witness ==
  \E p \in Sweeps :
    /\ sw[p].pc = "done"
    /\ sw[p].org_id = 1
    /\ Cardinality({k \in Attempted(p) : k[3] = REMINDER}) >= 2

\* C6: a run attempts an escalation key only for a matching pair with
\* escalation enabled, days_left in the escalation offsets and a record that
\* is neither renewed nor archived; a run that has returned attempted every
\* such key; no escalation row exists for a renewed or archived record.
C6_EscalationIff ==
  /\ \A p \in Sweeps :
       /\ {k \in Attempted(p) : k[3] = ESCALATION}
            \subseteq DueEscalations(sw[p].org_id, sw[p].run_date)
       /\ sw[p].pc = "done" =>
            DueEscalations(sw[p].org_id, sw[p].run_date) \subseteq Attempted(p)
  /\ \A r \in ledger :
       r.kind = ESCALATION => recStatus[r.record] \notin {"renewed", "archived"}

\* A run has returned that escalated for the active record and passed the
\* renewed record whose days_left is an escalation offset of the same rule.
C6_Witness ==
  \E p \in Sweeps :
    /\ sw[p].pc = "done"
    /\ <<1, 1, ESCALATION, 2>> \in Attempted(p)
    /\ <<2, 1, REMINDER, 2>> \in Attempted(p)
    /\ <<2, 1, ESCALATION, 2>> \notin Attempted(p)
    /\ EscalationDue(Rules[1], Records[2].expiry_date - 2)


SameRow(r, r2) == r2.id = r.id /\ KeyOf(r2) = KeyOf(r)

\* C7: a row enters the ledger as pending, its status only ever goes from
\* pending to sent, failed or skipped, a row that is sent, failed or skipped
\* keeps its status, and no row leaves the ledger.
C7_StatusTransitions ==
  [][ /\ \A r \in ledger : \E r2 \in ledger' :
            /\ SameRow(r, r2)
            /\ \/ r2.status = r.status
               \/ r.status = PENDING /\ r2.status \in {SENT, FAILED, SKIPPED}
      /\ \A r2 \in ledger' :
            (\A r \in ledger : ~SameRow(r, r2)) => r2.status = PENDING
    ]_vars

\* The ledger holds a sent, a failed and a skipped row, and a sweep was
\* refused the key of a row that had left pending.
C7_Witness ==
  /\ \A st \in {SENT, FAILED, SKIPPED} : \E r \in ledger : r.status = st
  /\ \E p \in Sweeps : \E k \in sw[p].lost : RowOf(k).status # PENDING

\* A pending row whose claiming sweep is gone.
Held(r) ==
  \E p \in Sweeps :
    sw[p].pc \in {"claimed", "sent", "raised"} /\ SameRow(sw[p].log, r)

Orphan(r) == r.status = PENDING /\ ~Held(r)

\* C8: a row left pending by a killed sweep stays in the ledger as it is, no
\* send is ever made for its key, and a later run for which the key is due
\* finds it already claimed (counts it as skipped).
C8_PendingForever ==
  /\ [](\A p \in Sweeps : sw[p].pc = "done" =>
          \A r \in ledger :
            (Orphan(r) /\ KeyOf(r) \in DueKeys(sw[p].org_id, sw[p].run_date))
              => (KeyOf(r) \in sw[p].lost /\ sw[p].skipped >= 1))
  /\ [][ \A r \in ledger : Orphan(r) =>
            /\ r \in ledger'
            /\ Count(sendCalls', KeyOf(r)) = Count(sendCalls, KeyOf(r))
            /\ \A p \in Sweeps : sw'[p].pc \in {"claimed", "sent", "raised"}
                                   => ~SameRow(sw'[p].log, r)
       ]_vars

\* A later run has returned after skipping the key of an orphaned pending row.
C8_Witness ==
  \E p \in Sweeps : \E r \in ledger :
    sw[p].pc = "done" /\ Orphan(r) /\ KeyOf(r) \in sw[p].lost

FailedOf(p) == {k \in sw[p].won : RowOf(k).status = FAILED}
SkippedOf(p) == {k \in sw[p].won : RowOf(k).status = SKIPPED}

\* C9: when the send raised, the handler stores status failed with the error
\* text and adds one to failed, and the sweep goes on: a run that has returned
\* attempted every due key, whatever failed on the way.
C9_FailureIsolated ==
  /\ [](/\ \A r \in ledger : r.status = FAILED =>
             Count(sendCalls, KeyOf(r)) = 1 /\ r.error_message \in SendErrors
        /\ \A p \in Sweeps : sw[p].pc = "done" =>
             /\ sw[p].failed = Cardinality(FailedOf(p))
             /\ DueKeys(sw[p].org_id, sw[p].run_date) \subseteq Attempted(p))
  /\ [][ \A p \in Sweeps :
           (sw[p].pc = "raised" /\ sw'[p].pc # "raised" /\ sw'[p] # IdleSweep) =>
             /\ \E r \in ledger' : /\ SameRow(sw[p].log, r)
                                   /\ r.status = FAILED
                                   /\ r.error_message = sw[p].err
             /\ sw'[p].failed = sw[p].failed + 1
             /\ sw'[p].pc = "eval"
       ]_vars

\* A run has returned whose first attempt failed in the send and which sent
\* a later one.
C9_Witness ==
  \E p \in Sweeps :
    /\ sw[p].pc = "done"
    /\ <<1, 1, REMINDER, 2>> \in FailedOf(p)
    /\ sw[p].sent >= 1

\* The owner address of a record as the catalog holds it.
OwnerAddress(rec) ==
  IF Records[rec].owner = 0 THEN None ELSE Users[Records[rec].owner].email

ValidAddress(e) ==
  e # None /\ e # <<>> /\ "@" \in Range(Strip(e)) /\ Len(Strip(e)) <= MaxEmailLen

\* C10: for a claimed reminder the recipients are the owner's (trimmed)
\* address when the owner exists and the address is valid, and none
\* otherwise; without recipients the log is skipped with a reason, not failed,
\* nothing is sent, and the run counts it in skipped, not in failed.
C10_ReminderRecipients ==
  /\ \A r \in ledger : (r.kind = REMINDER /\ r.status # PENDING) =>
       IF ValidAddress(OwnerAddress(r.record))
       THEN /\ r.status \in {SENT, FAILED}
            /\ Count(sendCalls, KeyOf(r)) = 1
            /\ r.status = SENT => r.recipients = <<Strip(OwnerAddress(r.record))>>
       ELSE /\ r.status = SKIPPED
            /\ r.error_message # <<>>
            /\ r.recipients = <<>>
            /\ Count(sendCalls, KeyOf(r)) = 0
  /\ \A p \in Sweeps :
       /\ (sw[p].pc \in {"sent", "raised"} /\ sw[p].kind = REMINDER) =>
            sw[p].to_emails = <<Strip(OwnerAddress(CurRecordId(sw[p])))>>
       /\ sw[p].pc = "done" =>
            /\ sw[p].skipped = Cardinality(sw[p].lost) + Cardinality(SkippedOf(p))
            /\ sw[p].failed = Cardinality(FailedOf(p))

\* A run has returned that claimed the reminder of the record without owner:
\* the row is skipped and the run counted it in skipped.
C10_Witness ==
  \E p \in Sweeps :
    /\ sw[p].pc = "done"
    /\ <<2, 1, REMINDER, 2>> \in SkippedOf(p)
    /\ ~ValidAddress(OwnerAddress(2))
    /\ sw[p].skipped >= 1

\* The addresses an escalation of rule for record rec is expected to go to,
\* stated on the catalog: a valid address is taken trimmed.
ExplicitValid(rule) ==
  {Strip(Users[u].email) :
     u \in {v \in Range(Rules[rule].escalation_recipients) : ValidAddress(Users[v].email)}}

Managers(org) ==
  {v \in UserIds : /\ Users[v].organization = org
                   /\ Users[v].role \in {"admin", "manager"}
                   /\ Users[v].is_active
                   /\ Users[v].email # <<>>}

ManagersValid(org) ==
  {Strip(Users[u].email) : u \in {v \in Managers(org) : ValidAddress(Users[v].email)}}

ManagersAll(org) == {Users[u].email : u \in Managers(org)}

\* The outcome of every claimed escalation, given the addresses exp it is
\* expected to go to: with none the row is skipped with a reason and nothing
\* is sent; otherwise one send is made, to exactly those addresses.
EscalationTargets(rec, rule, valid_only) ==
  IF ExplicitValid(rule) # {} THEN ExplicitValid(rule)
  ELSE IF valid_only THEN ManagersValid(Records[rec].organization)
  ELSE ManagersAll(Records[rec].organization)

EscalationOutcome(valid_only) ==
  /\ \A r \in ledger : (r.kind = ESCALATION /\ r.status # PENDING) =>
       LET exp == EscalationTargets(r.record, r.rule, valid_only)
       IN IF exp = {}
          THEN /\ r.status = SKIPPED
               /\ r.error_message # <<>>
               /\ r.recipients = <<>>
               /\ Count(sendCalls, KeyOf(r)) = 0
          ELSE /\ r.status \in {SENT, FAILED}
               /\ Count(sendCalls, KeyOf(r)) = 1
               /\ r.status = SENT =>
                    Range(r.recipients) = exp /\ Len(r.recipients) = Cardinality(exp)
  /\ \A p \in Sweeps :
       (sw[p].pc \in {"sent", "raised"} /\ sw[p].kind = ESCALATION) =>
          LET exp == EscalationTargets(CurRecordId(sw[p]), CurRuleId(sw[p]), valid_only)
          IN Range(sw[p].to_emails) = exp /\ Len(sw[p].to_emails) = Cardinality(exp)

DispatchFailedOf(p) ==
  {k \in sw[p].won : RowOf(k).status = FAILED /\ RowOf(k).error_message \in SendErrors}

\* C12: a ledger write that fails with a database error, at the claim or at
\* a finalizing save, ends the run with that error: a sweep holding such an
\* error has left the loop, no row records it as a failure, and failed
\* counts dispatch failures only.
C12_StoreErrorAborts ==
  /\ \A p \in Sweeps : sw[p].err \in StoreErrors => sw[p].pc = "aborted"
  /\ \A r \in ledger : r.status = FAILED => r.error_message \notin StoreErrors
  /\ \A p \in Sweeps : sw[p].pc \in {"eval", "done"} =>
       sw[p].failed = Cardinality(DispatchFailedOf(p))

SentOf(p) == {k \in sw[p].won : RowOf(k).status = SENT}

\* C13: when a run has returned, created is the number of rows it inserted,
\* sent and failed are the numbers of those rows that are sent and failed,
\* skipped is the number of attempts found already claimed plus the number
\* of its rows that are skipped; so created = sent + failed + skipped rows
\* and sent + failed + skipped = created + already-claimed attempts.
C13_SummaryCounts ==
  \A p \in Sweeps : sw[p].pc = "done" =>
    /\ sw[p].created = Cardinality(sw[p].won)
    /\ sw[p].won = {KeyOf(r) : r \in {x \in ledger : KeyOf(x) \in sw[p].won}}
    /\ sw[p].sent = Cardinality(SentOf(p))
    /\ sw[p].failed = Cardinality(FailedOf(p))
    /\ sw[p].skipped = Cardinality(sw[p].lost) + Cardinality(SkippedOf(p))
    /\ sw[p].created = sw[p].sent + sw[p].failed + Cardinality(SkippedOf(p))
    /\ sw[p].sent + sw[p].failed + sw[p].skipped = sw[p].created + Cardinality(sw[p].lost)

\* A run has returned with a sent, a failed and a skipped row of its own and
\* an attempt that another run had claimed before it.
C13_Witness ==
  \E p \in Sweeps :
    /\ sw[p].pc = "done"
    /\ sw[p].sent >= 1
    /\ sw[p].failed >= 1
    /\ SkippedOf(p) # {}
    /\ sw[p].lost # {}

\* C14: every row carries the organization of its record and of its rule,
\* and the keys a run for an org attempts are of records and rules of that
\* org, whatever the other orgs hold.
C14_TenantIsolation ==
  /\ \A r \in ledger :
       /\ r.organization = Records[r.record].organization
       /\ r.organization = Rules[r.rule].organization
  /\ \A p \in Sweeps : \A k \in Attempted(p) :
       /\ Records[k[1]].organization = sw[p].org_id
       /\ Rules[k[2]].organization = sw[p].org_id
  /\ \A p \in Sweeps : sw[p].pc \in {"claimed", "sent", "raised"} =>
       sw[p].log.organization = sw[p].org_id

\* Runs for two orgs have each left rows in the ledger, and a run for the
\* second org has returned.
C14_Witness ==
  /\ \A o \in Orgs : \E r \in ledger : r.organization = o
  /\ \E p \in Sweeps : sw[p].pc = "done" /\ sw[p].org_id = 2 /\ sw[p].won # {}

\* The match as the rule's scope defines it: an unset dimension is a wildcard.
ScopeMatch(rule, record) ==
  \A dim \in {"record_type", "category"} : rule[dim] # "" => record[dim] = rule[dim]

\* C15: matches_record is false when the organizations differ, otherwise
\* true when applies_to_all is set, otherwise true exactly when every
\* dimension set on the rule equals the record's field; the call leaves rule
\* and record as they were.
C15_MatchesRecord ==
  /\ [](call.fn = "matches_record" /\ call.result # "pending" =>
          call.result =
            IF call.rule.organization # call.record.organization THEN "False"
            ELSE IF call.rule.applies_to_all THEN "True"
            ELSE IF ScopeMatch(call.rule, call.record) THEN "True" ELSE "False")
  /\ [][call.fn = "matches_record" =>
          call'.rule = call.rule /\ call'.record = call.record]_vars

\* A rule scoped on both dimensions was matched against a record of its org
\* that has the rule's type and another category: no match.
C15_Witness ==
  /\ call.fn = "matches_record"
  /\ call.result = "False"
  /\ call.rule.organization = call.record.organization
  /\ ~call.rule.applies_to_all
  /\ call.rule.record_type = call.record.record_type
  /\ call.rule.category \notin {"", call.record.category}

\* A submitted offsets value that is no list of non-negative integers.
Malformed(j) ==
  j.t # "list" \/ \E i \in DOMAIN j.v : j.v[i].t # "int" \/ j.v[i].v < 0

Validated == call.fn = "save_rule" /\ call.state # "submitted"

\* C16: a rule whose reminder or escalation offsets value is not a list, or
\* holds an element that is not an integer or is negative, is rejected by
\* validation and never stored.
C16_RejectsMalformedOffsets ==
  (Validated /\ (Malformed(call.input.offsets_days)
                   \/ Malformed(call.input.escalate_offsets_days))) =>
     /\ call.state = "invalid"
     /\ call.error # ""
     /\ call.stored = NoRule

\* C17: a rule with applies_to_all off and neither record_type nor category
\* is rejected; with applies_to_all off, at least one of the two set and
\* both offsets values lists of non-negative integers, it is accepted.
C17_ScopeRequired ==
  (Validated /\ ~call.input.applies_to_all) =>
     /\ (call.input.record_type = "" /\ call.input.category = "") =>
          call.state = "invalid" /\ call.stored = NoRule
     /\ ((call.input.record_type # "" \/ call.input.category # "")
          /\ ~Malformed(call.input.offsets_days)
          /\ ~Malformed(call.input.escalate_offsets_days)) =>
          call.state # "invalid" /\ call.error = ""

\* A rule scoped on its category alone has been accepted and saved.
C17_Witness ==
  /\ call.fn = "save_rule"
  /\ call.state = "saved"
  /\ ~call.input.applies_to_all
  /\ call.input.record_type = ""
  /\ call.input.category # ""
  /\ call.stored.category = call.input.category

Numbers(xs) == {xs[i].v : i \in DOMAIN xs}

StrictlyDescending(xs) == \A i, j \in DOMAIN xs : i < j => xs[i].v > xs[j].v

NormalForm(stored, supplied) ==
  /\ stored.t = "list"
  /\ StrictlyDescending(stored.v)
  /\ Numbers(stored.v) = Numbers(supplied.v)

\* C18: a saved rule has both offsets lists strictly descending (so without
\* duplicates) and holding exactly the numbers that were submitted, and
\* validating the saved rule again is accepted and leaves both lists as
\* they are.
C18_OffsetsNormalized ==
  (call.fn = "save_rule" /\ call.state \in {"saved", "revalidated"}) =>
     /\ NormalForm(call.stored.offsets_days, call.input.offsets_days)
     /\ NormalForm(call.stored.escalate_offsets_days, call.input.escalate_offsets_days)
     /\ call.state = "revalidated" =>
          /\ call.error = ""
          /\ call.rule.offsets_days = call.stored.offsets_days
          /\ call.rule.escalate_offsets_days = call.stored.escalate_offsets_days

\* A rule submitted with ascending reminder offsets and a repeated
\* escalation offset has been saved and validated again.
C18_Witness ==
  /\ call.fn = "save_rule"
  /\ call.state = "revalidated"
  /\ Len(call.input.offsets_days.v) = 2
  /\ call.input.offsets_days.v[1].v < call.input.offsets_days.v[2].v
  /\ Len(call.input.escalate_offsets_days.v) = 2
  /\ Len(call.stored.escalate_offsets_days.v) = 1

\* C19: the error_message stored with a failed log is the first 5000
\* characters of the error text: the whole text when it has at most 5000
\* characters, its prefix of 5000 characters otherwise.
C19_ErrorTruncated ==
  (call.fn = "mark_failed" /\ call.state = "saved") =>
     /\ call.stored.status = FAILED
     /\ Len(call.stored.error_message) =
          (IF Len(call.error) <= 5000 THEN Len(call.error) ELSE 5000)
     /\ \A i \in 1..Len(call.stored.error_message) :
          call.stored.error_message[i] = call.error[i]

\* An error text of 6000 varying characters has been stored with 5000.
C19_Witness ==
  /\ call.fn = "mark_failed"
  /\ call.state = "saved"
  /\ Len(call.error) = 6000
  /\ call.error[2] # call.error[1]
  /\ Len(call.stored.error_message) = 5000

OtherKind(k) == <<k[1], k[2], IF k[3] = REMINDER THEN ESCALATION ELSE REMINDER, k[4]>>

\* The sweep p takes the step, which ends the block it is in.
EndsBlock(p) ==
  /\ Running(p)
  /\ sw'[p] # sw[p]
  /\ sw'[p].pc = "eval"

\* C20: when reminder and escalation of one pair are both due, a run that
\* has returned attempted both keys and each key has its own row.  Whatever
\* way the reminder block ends (sent, failed, skipped, already claimed), the
\* escalation block of the same pair comes next; a claimed log ends skipped
\* without recipients, sent after a send that returned, failed after a send
\* that raised, and the step leaves the row of the other kind alone.
C20_TwoIndependentLogs ==
  /\ [](\A p \in Sweeps : sw[p].pc = "done" =>
          \A rec \in RecordIds, rule \in RuleIds :
            (/\ ExpectedReminder(rec, rule, sw[p].org_id, sw[p].run_date)
             /\ ExpectedEscalation(rec, rule, sw[p].org_id, sw[p].run_date)) =>
              LET rem == <<rec, rule, REMINDER, sw[p].run_date>>
                  esc == <<rec, rule, ESCALATION, sw[p].run_date>>
              IN /\ {rem, esc} \subseteq Attempted(p)
                 /\ Cardinality(RowsOf(rem)) = 1
                 /\ Cardinality(RowsOf(esc)) = 1
                 /\ Cardinality(RowsOf(rem) \cup RowsOf(esc)) = 2)
  /\ [][ \A p \in Sweeps : EndsBlock(p) =>
           LET s == sw[p]
               t == sw'[p]
           IN /\ (/\ s.kind = REMINDER
                   /\ ExpectedEscalation(CurRecordId(s), CurRuleId(s), s.org_id, s.run_date)) =>
                     /\ t.ri = s.ri /\ t.ci = s.ci
                     /\ t.kind = ESCALATION
                     /\ AtPair(p)'
              /\ s.pc # "eval" =>
                   /\ \E r \in ledger' :
                        /\ SameRow(s.log, r)
                        /\ r.status = (IF s.pc = "sent" THEN SENT
                                       ELSE IF s.pc = "raised" THEN FAILED ELSE SKIPPED)
                   /\ s.pc = "claimed" => Recipients(s) = <<>>
                   /\ \A r \in ledger : KeyOf(r) = OtherKind(CurKey(s)) => r \in ledger'
       ]_vars

\* For one pair the reminder failed and the escalation was sent by the same
\* run; for another the reminder was skipped and the escalation claimed
\* after it.
C20_Witness ==
  /\ \E p \in Sweeps : sw[p].pc = "done" /\ {<<1, 1, REMINDER, 2>>, <<1, 1, ESCALATION, 2>>} \subseteq sw[p].won
  /\ \E r \in ledger : KeyOf(r) = <<1, 1, REMINDER, 2>> /\ r.status = FAILED
  /\ \E r \in ledger : KeyOf(r) = <<1, 1, ESCALATION, 2>> /\ r.status = SENT
  /\ \E r \in ledger : KeyOf(r) = <<4, 4, REMINDER, 1>> /\ r.status = SKIPPED
  /\ \E r \in ledger : KeyOf(r) = <<4, 4, ESCALATION, 1>> /\ r.status # PENDING


\* C21: no log row of either kind exists for a record whose status is
\* archived, and no sweep has such a record among the records it iterates.
C21_NoLogForArchived ==
  /\ \A r \in ledger : recStatus[r.record] # "archived"
  /\ \A p \in Sweeps : \A i \in DOMAIN sw[p].records :
       recStatus[sw[p].records[i].id] # "archived"

\* A run of the tenant of the archived record 3 has returned on a date on
\* which the record matches rule 1 and its days_left is a reminder offset
\* and an escalation offset of the rule; the run logged the active record 1.
C21_Witness ==
  \E p \in Sweeps :
    /\ sw[p].pc = "done"
    /\ sw[p].org_id = Records[3].organization
    /\ recStatus[3] = "archived"
    /\ matches_record(Rules[1], Records[3])
    /\ ReminderDue(Rules[1], Records[3].expiry_date - sw[p].run_date)
    /\ EscalationDue(Rules[1], Records[3].expiry_date - sw[p].run_date)
    /\ <<1, 1, REMINDER, sw[p].run_date>> \in Attempted(p)
    /\ \A r \in ledger : r.record # 3


\* The run p attempted the reminder key k and, when it claimed the key
\* itself, resolved it by the owner's address alone: sent or failed when the
\* address is valid, skipped otherwise.
ReminderProcessed(p, k) ==
  /\ k \in Attempted(p)
  /\ Cardinality(RowsOf(k)) = 1
  /\ k \in sw[p].won =>
       IF ValidAddress(OwnerAddress(k[1]))
       THEN RowOf(k).status \in {SENT, FAILED} /\ Count(sendCalls, k) = 1
       ELSE RowOf(k).status = SKIPPED /\ Count(sendCalls, k) = 0

\* C22: a run that has returned attempted, for a renewed record, the reminder
\* of every matching enabled rule whose offsets contain days_left, and
\* processed it as it does for any record (by the owner's address), while it
\* attempted no escalation for the record and no escalation row exists for it.
C22_RenewedStillReminded ==
  \A p \in Sweeps : sw[p].pc = "done" =>
    \A rec \in RecordIds : recStatus[rec] = "renewed" =>
      \A rule \in RuleIds :
        /\ <<rec, rule, REMINDER, sw[p].run_date>> \in Attempted(p)
             <=> ExpectedReminder(rec, rule, sw[p].org_id, sw[p].run_date)
        /\ ExpectedReminder(rec, rule, sw[p].org_id, sw[p].run_date) =>
             ReminderProcessed(p, <<rec, rule, REMINDER, sw[p].run_date>>)
        /\ <<rec, rule, ESCALATION, sw[p].run_date>> \notin Attempted(p)
        /\ \A d \in RunDates : RowsOf(<<rec, rule, ESCALATION, d>>) = {}

\* A run has returned that claimed and resolved the reminders of the renewed
\* record 2 under both rules matching it, on a date on which rule 1 would
\* escalate; it escalated for the active record 1 and not for record 2.
C22_Witness ==
  \E p \in Sweeps :
    /\ sw[p].pc = "done"
    /\ recStatus[2] = "renewed"
    /\ EscalationDue(Rules[1], Records[2].expiry_date - sw[p].run_date)
    /\ {<<2, 1, REMINDER, sw[p].run_date>>, <<2, 2, REMINDER, sw[p].run_date>>} \subseteq sw[p].won
    /\ RowOf(<<2, 1, REMINDER, sw[p].run_date>>).status # PENDING
    /\ <<1, 1, ESCALATION, sw[p].run_date>> \in sw[p].won
    /\ <<2, 1, ESCALATION, sw[p].run_date>> \notin Attempted(p)


\* The sum of one count over the per-tenant summaries.
RECURSIVE SumOf(_, _)
SumOf(summaries, k) ==
  IF summaries = <<>> THEN 0 ELSE Head(summaries)[k] + SumOf(Tail(summaries), k)

\* The tenants whose sweep the command has started or completed.
SweptOrgs ==
  {call.summaries[i].organization_id : i \in DOMAIN call.summaries}
    \cup (IF sw[CommandSweep].pc = "idle" THEN {} ELSE {sw[CommandSweep].org_id})

\* The tenants the command is to sweep: the active ones, or the selected one
\* alone when --org-id is given and that tenant is active.
SelectedOrgs ==
  {o \in Orgs : call.is_active[o] /\ (call.org_id.given => o = call.org_id.id)}

\* C23: the command sweeps no inactive tenant and no tenant other than the
\* selected one when --org-id is given; when it ends it has swept each
\* selected active tenant exactly once, and each total is the sum of that
\* count over the per-tenant summaries.
C23_CommandSweepsActive ==
  call.fn = "run_notifications" =>
    /\ SweptOrgs \subseteq SelectedOrgs
    /\ \A i, j \in DOMAIN call.summaries :
         call.summaries[i].organization_id = call.summaries[j].organization_id => i = j
    /\ call.pc = "end" =>
         /\ SweptOrgs = SelectedOrgs
         /\ \A k \in DOMAIN call.total : call.total[k] = SumOf(call.summaries, k)


\* The dispatcher has returned for the attempt the sweep p is in: the sweep
\* is about to finalize the log, or is in the handler with an error that is
\* not the dispatcher's.
HandedOver(p) ==
  \/ sw[p].pc = "sent"
  \/ /\ sw[p].pc = "raised"
     /\ Count(sendCalls, CurKey(sw[p])) = 1
     /\ sw[p].err \notin SendErrors

\* C24: the step that ends the block of an attempt whose dispatch returned
\* leaves the log sent and counts it in sent and not in failed; a step that
\* ends a block with the log failed follows a dispatch that raised.
C24_SentWhenHandedOver ==
  [][\A p \in Sweeps : EndsBlock(p) =>
       LET k == CurKey(sw[p])
           rows == {r \in ledger' : KeyOf(r) = k}
       IN /\ HandedOver(p) =>
               /\ \A r \in rows : r.status = SENT
               /\ sw'[p].sent = sw[p].sent + 1
               /\ sw'[p].failed = sw[p].failed
          /\ (sw[p].pc # "eval" /\ \E r \in rows : r.status = FAILED) =>
               sw[p].pc = "raised" /\ sw[p].err \in SendErrors]_vars


\* C25: whenever a sweep comes to the escalation block of a pair with the
\* escalation due (it claims the key next), the record's status in the
\* catalog at that moment is neither renewed nor archived.
C25_SuppressionAtEvaluation ==
  [][\A p \in Sweeps :
       ( /\ sw'[p] # sw[p]
         /\ sw'[p].pc = "eval"
         /\ sw'[p].ri <= Len(sw'[p].rules)
         /\ sw'[p].records # <<>>
         /\ sw'[p].kind = ESCALATION )
       => recStatus'[CurRecordId(sw'[p])] \notin {"renewed", "archived"}]_vars


\* The position of a sweep in its two loops and in the loop body.
Pos(s) == <<s.ri, s.ci, IF s.kind = REMINDER THEN 0 ELSE 1>>

PosBefore(a, b) ==
  \/ a[1] < b[1]
  \/ a[1] = b[1] /\ a[2] < b[2]
  \/ a[1] = b[1] /\ a[2] = b[2] /\ a[3] < b[3]

\* C26: a run that is not killed, with a store that accepts writes, returns;
\* every block it ends moves it forward in the loops and it attempts no key
\* twice; when it has returned both loops are exhausted and every row it
\* claimed is sent, failed or skipped.
C26_RunTerminates ==
  /\ \A p \in Sweeps : Running(p) ~> sw[p].pc = "done"
  /\ [][\A p \in Sweeps :
          /\ EndsBlock(p) => PosBefore(Pos(sw[p]), Pos(sw'[p]))
          /\ (AtPair(p) /\ sw'[p] # sw[p]) => CurKey(sw[p]) \notin Attempted(p)]_vars
  /\ [](\A p \in Sweeps : sw[p].pc = "done" =>
          /\ sw[p].ri > Len(sw[p].rules) \/ sw[p].records = <<>>
          /\ \A k \in sw[p].won : RowOf(k).status \in {SENT, FAILED, SKIPPED})

\* A run has returned after claiming keys of both kinds whose logs ended in
\* three different ways.
C26_Witness ==
  \E p \in Sweeps :
    /\ sw[p].pc = "done"
    /\ \E k1, k2, k3 \in sw[p].won :
         /\ RowOf(k1).status = SENT
         /\ RowOf(k2).status = FAILED
         /\ RowOf(k3).status = SKIPPED


\* The sweep p is killed in this step.
Killed(p) == Running(p) /\ sw'[p].pc = "idle"

\* C27: the kill of a sweep changes no row, and the ledger keeps its
\* uniqueness and its four statuses; every claim a sweep makes wins the key
\* exactly when no row has it yet, whoever inserted the row and whether or
\* not that sweep is still alive; a run that returns has attempted exactly
\* the due keys, resolved those it won and left the others as they were.
C27_KilledSweepRecovery ==
  /\ [](/\ \A r1, r2 \in ledger : KeyOf(r1) = KeyOf(r2) => r1 = r2
        /\ \A r \in ledger : r.status \in NotificationStatus)
  /\ [][\A p \in Sweeps :
          /\ Killed(p) => ledger' = ledger /\ sendCalls' = sendCalls
          /\ (AtPair(p) /\ sw'[p] # sw[p] /\ ~Killed(p)) =>
               IF RowsOf(CurKey(sw[p])) = {}
               THEN /\ CurKey(sw[p]) \in sw'[p].won
                    /\ sw'[p].pc = "claimed"
                    /\ \E r \in ledger' \ ledger : KeyOf(r) = CurKey(sw[p]) /\ r.status = PENDING
               ELSE /\ CurKey(sw[p]) \in sw'[p].lost \ sw'[p].won
                    /\ ledger' = ledger]_vars
  /\ [](\A p \in Sweeps : sw[p].pc = "done" =>
          /\ Attempted(p) = DueKeys(sw[p].org_id, sw[p].run_date)
          /\ sw[p].won \cap sw[p].lost = {}
          /\ \A k \in sw[p].won : RowOf(k).status \in {SENT, FAILED, SKIPPED}
          /\ \A k \in sw[p].lost : Cardinality(RowsOf(k)) = 1)

\* A sweep was killed holding a claimed key (its row is pending and no sweep
\* is running); a later run of the same tenant and date has returned: it
\* found that key claimed, and claimed and resolved another due key.
C27_Witness ==
  \E p \in Sweeps :
    /\ sw[p].pc = "done"
    /\ \A q \in Sweeps \ {p} : sw[q].pc = "idle"
    /\ \E k \in sw[p].lost : Orphan(RowOf(k))
    /\ \E k \in sw[p].won : RowOf(k).status # PENDING
    /\ Attempted(p) = DueKeys(sw[p].org_id, sw[p].run_date)


\* Rule and kind are due for the record in a run of org on date.
Expected(rec, rule, kind, org, date) ==
  IF kind = REMINDER THEN ExpectedReminder(rec, rule, org, date)
  ELSE ExpectedEscalation(rec, rule, org, date)

\* C28: when two enabled rules of a tenant are due for the same record and
\* kind on the run date, a run that has returned attempted both keys and each
\* key has a row of its own; alone in the ledger, the run claimed both.  A
\* sweep is refused a key only when a row of that very rule exists.
C28_OneRowPerRule ==
  /\ [](\A p \in Sweeps : sw[p].pc = "done" =>
          \A rec \in RecordIds, kind \in NotificationKind : \A r1, r2 \in RuleIds :
            ( /\ r1 # r2
              /\ Expected(rec, r1, kind, sw[p].org_id, sw[p].run_date)
              /\ Expected(rec, r2, kind, sw[p].org_id, sw[p].run_date) )
            => LET k1 == <<rec, r1, kind, sw[p].run_date>>
                   k2 == <<rec, r2, kind, sw[p].run_date>>
               IN /\ {k1, k2} \subseteq Attempted(p)
                  /\ Cardinality(RowsOf(k1) \cup RowsOf(k2)) = 2
                  /\ runs = 1 => {k1, k2} \subseteq sw[p].won)
  /\ [][\A p \in Sweeps : \A k \in sw'[p].lost \ sw[p].lost :
          \E r \in ledger : /\ r.rule = k[2] /\ r.record = k[1]
                            /\ r.kind = k[3] /\ r.trigger_date = k[4]]_vars

\* A run has returned that claimed the escalation of record 4 under rule 4
\* and under rule 5: the first log is skipped, the second one sent.
C28_Witness ==
  \E p \in Sweeps :
    /\ sw[p].pc = "done"
    /\ {<<4, 4, ESCALATION, 1>>, <<4, 5, ESCALATION, 1>>} \subseteq sw[p].won
    /\ RowOf(<<4, 4, ESCALATION, 1>>).status = SKIPPED
    /\ RowOf(<<4, 5, ESCALATION, 1>>).status = SENT


\* The reminder rows of a pair, over all trigger dates.
ReminderRows(rec, rule) ==
  {r \in ledger : r.record = rec /\ r.rule = rule /\ r.kind = REMINDER}

\* C29: for a record and an enabled rule matching it, whatever runs took
\* place, a reminder row with trigger date d exists only if expiry - d is a
\* reminder offset of the rule, there is exactly one for every such d on
\* which a run of the tenant has returned and never more than one, so the
\* pair has at most as many reminder rows as the rule has offsets; a pair
\* that does not match has none.
C29_OneReminderPerOffset ==
  [] \A rec \in RecordIds, rule \in RuleIds :
    IF MatchingPair(rec, rule, Records[rec].organization)
    THEN /\ \A d \in RunDates :
              LET rows == RowsOf(<<rec, rule, REMINDER, d>>)
              IN IF (Records[rec].expiry_date - d) \in Range(Rules[rule].offsets_days)
                 THEN /\ Cardinality(rows) <= 1
                      /\ <<Records[rec].organization, d>> \in completed => Cardinality(rows) = 1
                 ELSE rows = {}
         /\ \A r \in ReminderRows(rec, rule) : r.trigger_date \in RunDates
         /\ Cardinality(ReminderRows(rec, rule)) <= Cardinality(Range(Rules[rule].offsets_days))
    ELSE ReminderRows(rec, rule) = {}

\* Runs of tenant 1 have returned on dates 1 and 2: record 1 has its two
\* reminder rows under rule 1 (offsets 2 and 1), and record 2 has one row
\* under rule 2 (offset 1), none for the other date.
C29_Witness ==
  /\ {<<1, 1>>, <<1, 2>>} \subseteq completed
  /\ Cardinality(ReminderRows(1, 1)) = 2
  /\ Cardinality(ReminderRows(2, 2)) = 1


\* C30: no step of a run changes a record (the status is the one mutable
\* record field of the model; expiry date, owner, and the rules with their
\* offsets, enabled flag and recipients are fixed tables).  A step of a run
\* deletes no log row, inserts at most the row of the key the stepping sweep
\* claims in that step, and changes only a row the stepping sweep claimed in
\* this run, leaving its key and id as they are.
C30_RunChangesOnlyItsLogs ==
  [][/\ recStatus' = recStatus
     /\ \A r \in ledger \ ledger' :
          /\ \E r2 \in ledger' : SameRow(r, r2)
          /\ \E p \in Sweeps : sw'[p] # sw[p] /\ KeyOf(r) \in sw[p].won
     /\ \A r2 \in ledger' \ ledger :
          \/ \E r \in ledger : SameRow(r, r2)
          \/ \E p \in Sweeps : /\ sw[p].pc = "eval" /\ sw'[p].pc = "claimed"
                               /\ KeyOf(r2) = CurKey(sw[p])
                               /\ KeyOf(r2) \in sw'[p].won \ sw[p].won
     /\ Cardinality(ledger') <= Cardinality(ledger) + 1]_vars

\* A run has returned that claimed and resolved keys while the ledger holds
\* a row of another run, and every record has the status it started with.
C30_Witness ==
  \E p \in Sweeps :
    /\ sw[p].pc = "done"
    /\ \E k \in sw[p].won : RowOf(k).status = SENT
    /\ \E r \in ledger : KeyOf(r) \notin sw[p].won /\ r.status # PENDING
    /\ recStatus = [r \in RecordIds |-> Records[r].status]


\* What the claim expects of a template: every recognized token replaced by
\* its value, every other chunk kept.
RECURSIVE Substituted(_, _)
Substituted(t, c) ==
  IF t = <<>> THEN <<>>
  ELSE LET h == Head(t)
           v == IF h = "{kind}" THEN <<c.kind>>
                ELSE IF h = "{title}" THEN c.record.title
                ELSE IF h = "{ref}"
                  THEN (IF c.record.reference_no # <<>> THEN c.record.reference_no ELSE <<"N/A">>)
                ELSE IF h = "{expiry}" THEN <<ToString(c.record.expiry_date)>>
                ELSE IF h = "{days}" THEN <<ToString(c.days_left)>>
                ELSE <<h>>
       IN v \o Substituted(Tail(t), c)

\* The placeholders the claim names.
Tokens == {"{kind}", "{title}", "{ref}", "{expiry}", "{days}"}

\* The record's own values contain no placeholder.
PlainValues(c) ==
  \A i \in DOMAIN c.record.title : c.record.title[i] \notin Tokens

\* C31: once subject and body are rendered, each equals its template (the
\* rule's when non-empty, the default otherwise) with every occurrence of
\* kind, title, reference (N/A when blank), expiry date and days-left
\* replaced and every other token left as it was; surrounding blanks of the
\* subject are not compared.
C31_RenderingReplacesTokens ==
  (call.fn = "render" /\ call.body_done /\ PlainValues(call)) =>
    /\ call.subject =
         Strip(Substituted(IF call.rule.email_subject_template # <<>>
                           THEN call.rule.email_subject_template ELSE DefaultSubject, call))
    /\ call.body =
         Substituted(IF call.rule.email_body_template # <<>>
                     THEN call.rule.email_body_template ELSE DefaultBody, call)


\* The sending identity: the configured mailbox, or the fixed fallback
\* address when none is configured.
SendingMailbox(c) ==
  IF c.EMAIL_HOST_USER \in {None, <<>>} THEN FallbackMailbox ELSE c.EMAIL_HOST_USER

\* The configured default from-value, empty when there is none.
DefaultFromValue(c) ==
  IF c.DEFAULT_FROM_EMAIL = None THEN <<>> ELSE c.DEFAULT_FROM_EMAIL

\* C32: the from-address of every built message is the configured default
\* from-value when that value contains the mailbox address and the mailbox
\* address itself otherwise; it always contains the mailbox address.
C32_FromContainsMailbox ==
  (call.fn = "_send_email" /\ call.state # "entered") =>
    /\ Contains(DefaultFromValue(call), SendingMailbox(call))
         => call.from_email = DefaultFromValue(call)
    /\ ~Contains(DefaultFromValue(call), SendingMailbox(call))
         => call.from_email = SendingMailbox(call)
    /\ Contains(call.from_email, SendingMailbox(call))

\* A message went out whose default from-value is set and lacks the mailbox.
C32_Witness ==
  /\ call.fn = "_send_email"
  /\ call.state = "sent"
  /\ DefaultFromValue(call) # <<>>
  /\ ~Contains(DefaultFromValue(call), SendingMailbox(call))
  /\ call.from_email = SendingMailbox(call)


\* Position of the first entry of emails whose trimmed form is a.
FirstAt(emails, a) ==
  CHOOSE i \in DOMAIN emails :
    /\ ValidAddress(emails[i]) /\ Strip(emails[i]) = a
    /\ \A j \in 1..(i - 1) : ~(ValidAddress(emails[j]) /\ Strip(emails[j]) = a)

\* C33: the result of _safe_emails holds exactly the trimmed valid entries
\* of its input (non-empty, with "@", at most 254 characters once trimmed),
\* each once, in the order of their first occurrence; filtering the result
\* again returns it unchanged.
C33_SafeEmailsFilter ==
  (call.fn = "_safe_emails" /\ call.state # "entered") =>
    LET in == call.emails
        out == call.result
    IN /\ Range(out) = { Strip(in[i]) : i \in { j \in DOMAIN in : ValidAddress(in[j]) } }
       /\ \A i, j \in DOMAIN out : i # j => out[i] # out[j]
       /\ \A i, j \in DOMAIN out : i < j => FirstAt(in, out[i]) < FirstAt(in, out[j])
       /\ call.state = "refiltered" => call.again = out

\* A list with a repeated address (once padded), an invalid entry and
\* another address has been filtered twice.
C33_Witness ==
  /\ call.fn = "_safe_emails"
  /\ call.state = "refiltered"
  /\ call.emails = << <<" ", "m", "@", "x", " ">>, <<"m", "@", "x">>, <<"n", "@", "y">> >>
  /\ call.result = << <<"m", "@", "x">>, <<"n", "@", "y">> >>


\* C34: in every ledger state a sent row has a sent_at, a non-empty
\* recipients snapshot equal to the list its message was sent to and the
\* rendered subject as payload_summary; a pending, failed or skipped row has
\* no sent_at and an empty recipients snapshot; a skipped row carries a
\* non-empty reason in error_message.
C34_RowFieldsFollowStatus ==
  [] \A r \in ledger :
       /\ r.status = SENT =>
            /\ r.sent_at # "null"
            /\ r.recipients # <<>>
            /\ r.recipients = RecipientsOf[r.record, r.rule, r.kind]
            /\ Count(sendCalls, KeyOf(r)) = 1
            /\ r.payload_summary =
                 render_subject(Rules[r.rule], Records[r.record], KindLabel(r.kind),
                                Records[r.record].expiry_date - r.trigger_date)
       /\ r.status \in {PENDING, FAILED, SKIPPED} =>
            /\ r.sent_at = "null"
            /\ r.recipients = <<>>
       /\ r.status = SKIPPED => r.error_message # <<>>

\* The ledger holds a sent, a failed and a skipped row at once.
C34_Witness ==
  /\ \E r \in ledger : r.status = SENT
  /\ \E r \in ledger : r.status = FAILED
  /\ \E r \in ledger : r.status = SKIPPED


\* Every offset of the rule is non-negative, as validation demands.
NonNegativeOffsets(rule) ==
  \A o \in Range(rule.offsets_days) \cup Range(rule.escalate_offsets_days) : o >= 0

\* The offsets that apply to a kind of notification.
RelevantOffsets(rule, kind) ==
  IF kind = REMINDER THEN Range(rule.offsets_days) ELSE Range(rule.escalate_offsets_days)

\* C35: under a rule whose offsets are all non-negative no reminder and no
\* escalation is claimed for a run date after the record's expiry date, and
\* one claimed on the expiry date itself has 0 among the relevant offsets.
C35_NoClaimAfterExpiry ==
  [] \A r \in ledger :
       NonNegativeOffsets(Rules[r.rule]) =>
         LET days_left == Records[r.record].expiry_date - r.trigger_date
         IN /\ days_left >= 0
            /\ days_left = 0 => 0 \in RelevantOffsets(Rules[r.rule], r.kind)

\* A run on the day after record 4 expired has returned, and a log claimed
\* on the expiry date itself exists.
C35_Witness ==
  /\ \E c \in completed : c[1] = Records[4].organization /\ c[2] > Records[4].expiry_date
  /\ \E r \in ledger : r.record = 4 /\ r.trigger_date = Records[4].expiry_date


\* C36: the stored status changes only when Record.save runs (called
\* directly or by refresh_status); a save of an instance whose status is
\* archived stores archived; a save of any other instance stores expired
\* when the expiry date is before today, expiring_soon when it is today or at
\* most 30 days ahead, and otherwise renewed if the instance was renewed when
\* save was entered and active if not.
C36_StoredStatusAfterSave ==
  [][ call.fn = "record" =>
        IF call'.saves = call.saves
        THEN call'.row_status = call.row_status
        ELSE LET before == call'.at_save
                 d == call'.expiry_date
                 t == call'.today
             IN /\ call'.status = call'.row_status
                /\ call'.row_status =
                     IF before = "archived" THEN "archived"
                     ELSE IF d < t THEN "expired"
                     ELSE IF d <= t + 30 THEN "expiring_soon"
                     ELSE IF before = "renewed" THEN "renewed"
                     ELSE "active"
    ]_vars

\* A renewed record with the expiry date exactly 30 days ahead was saved and
\* is stored as expiring_soon.
C36_Witness ==
  /\ call.fn = "record"
  /\ call.saves > 0
  /\ call.at_save = "renewed"
  /\ call.expiry_date = call.today + 30
  /\ call.row_status = "expiring_soon"


\* C37: whatever the interleaving of attachment creations, two attachments
\* of one record with the same file type never carry the same version, and
\* every attachment was created with the version one above the highest one
\* stored for its record and file type at that time (1 when there was none).
C37_DistinctVersions ==
  call.fn = "attachment_save" =>
    /\ \A a, b \in call.table :
         (a.id # b.id /\ a.record_id = b.record_id /\ a.file_type = b.file_type)
           => a.version # b.version
    /\ \A a \in call.table : a.version = a.before + 1

====
